---- MODULE Spec2Model ----
(***************************************************************************)
(* A model of the SHome telemetry pipeline: the Duco Modbus client         *)
(* (src/modules/duco.py), the Duco polling service                         *)
(* (src/services/duco_polling_service.py) and the time-series store and    *)
(* collector (src/services/timeseries_service.py).                         *)
(*                                                                         *)
(* Each component has its own variables, its own initial predicate and its *)
(* own next-state relation; a specification runs one component and leaves  *)
(* the variables of the others at their initial values.                    *)
(*                                                                         *)
(* Python's Optional[T] is modelled as a tuple: None is <<>> and a value v *)
(* is <<v>>.  Temperatures are kept in tenths of a degree, so the float    *)
(* v / 10.0 of the code is the integer v here.                             *)
(***************************************************************************)
EXTENDS Integers, Sequences, FiniteSets, TLC

VARIABLES
    \* ---- DucoModbusClient._convert_temperature (src/modules/duco.py) ----
    tempRaw,        \* the register value handed to _convert_temperature
    tempOut,        \* what _convert_temperature returned for it (tenths)
    tempPc,         \* "read": a value was read, "done": it was converted
    \* ---- DucoModbusClient write path (src/modules/duco.py) ----
    now,            \* time.time(), in seconds
    lastWriteTime,  \* self._last_write_time
    wPc,            \* per caller: position inside write_register
    wWakeAt,        \* per caller: when its time.sleep() may return
    wResult,        \* per caller: what its last write_register returned
    wCalls,         \* number of write_register calls started
    issueTimes,     \* the times at which client.write_register was issued
    \* ---- TimeSeriesDatabase (src/services/timeseries_service.py) ----
    dbRows,         \* the measurements table: row -> number of copies
    dbConn,         \* self.conn is set and not closed
    insPc,          \* position inside insert_measurements
    insBatch,       \* the measurements argument of the call
    insRetry,       \* retry_count
    insResult,      \* what the call returned
    insEntry,       \* history: [rows, conn] when the call was made
    insLog,         \* history: what the call has attempted so far
    \* ---- DucoModbusClient.get_active_nodes (src/modules/duco.py) ----
    bitRegs,        \* what the 9 presence registers return when read
    discResult,     \* the list get_active_nodes returned
    discPc,         \* "ready": registers set up, "done": list returned
    \* ---- DucoPollingService (src/services/duco_polling_service.py) ----
    active_nodes,   \* self.active_nodes
    nodeTypeCache,  \* duco_client._node_type_cache
    pollPc,         \* position inside _poll_nodes
    pollList,       \* the list the loop of _poll_nodes iterates
    pollIdx,        \* index of the node the loop is at
    toPublish,      \* nodes_to_publish
    pollHanded,     \* history: the list handed to publish_duco_network
    pollNoData,     \* history: nodes of this poll whose record had no data
    pollStats,      \* self.stats: errors, node_updates
    \* ---- TimeSeriesCollector (src/services/timeseries_service.py) ----
    kvDucobox,      \* what redis_publisher.get_ducobox() returns
    kvNodes,        \* what redis_publisher.get_all_duco_nodes() returns
    collected,      \* the list _collect_duco_measurements returned
    collectPc,      \* "ready": snapshot set up, "done": list returned
    \* ---- DucoModbusClient supply temperature zones (src/modules/duco.py) ----
    zoneTemp,       \* the temperature argument, in hundredths of a degree
    zoneReg,        \* the content of the zone's holding register
    zoneErr,        \* history: "none", "encode" or "transport" for the write
    zoneOut,        \* what get_supply_temperature_zone returned (tenths)
    zonePc,         \* "ready", "set": the write returned, "done": read back
    \* ---- UnifiedRedisPublisher (src/core/publisher.py) ----
    kvStore,        \* the Redis keys: a set of [key, value, expireAt]
    kvNow,          \* the time of the Redis server, in seconds
    key_prefix,     \* self.key_prefix
    enable_pubsub,  \* self.enable_pubsub
    pubPc,          \* "idle", or "done": a publish call has just returned
    pubCalls,       \* number of publish calls made
    pubCall,        \* history: the call that has just returned
    pubNotes,       \* history: the notifications that call published
    pubWritten,     \* history: per identity, its last write that took place
    \* ---- the service loops (DucoPollingService, TimeSeriesCollector) ----
    service,        \* the service followed: "poller" or "collector"
    running,        \* self.running
    interval,       \* self.poll_interval / self.collection_interval
    loopPc,         \* where the loop thread is
    waitLeft,       \* iterations the wait loop has left
    loopStats,      \* self.stats: cycles (polls / collections) and errors
    stopPc,         \* where the caller of stop() is
    joinSecs,       \* seconds the caller of stop() has waited in join
    cycleBit,       \* history: flips each time a cycle is started
    lateSleep,      \* history: seconds slept in the wait after stop()
    lastCycle,      \* history: how the last cycle ended
    \* ---- the operations of DucoPollingService ----
    opPc,           \* "idle", or "done": an operation has just returned
    opCall,         \* history: the operation, its result and what it did
    \* ---- NikoCallbackService (src/services/unified_main_service.py) ----
    nikoRunning,    \* self.running
    devices_cache,  \* the UUIDs that are keys of self.devices_cache
    nikoStats,      \* self.stats: device_updates and errors
    nikoLast,       \* history: per UUID, the last event handled for it
    nikoDeleted,    \* history: per UUID, whether its last delete took place
    \* ---- NikoDataConverter (src/datastructures/niko.py) ----
    api_data,       \* the raw device record
    new_device,     \* None, or the device create_device returned
    \* ---- TimeSeriesCollector._collect_and_store ----
    utcNow,         \* datetime.now(timezone.utc), in clock ticks
    cyclePc,        \* "idle", or "done": a cycle has just ended
    cycleBatch,     \* None, or the list handed to insert_measurements
    cycleStats,     \* self.stats: measurements_stored and errors
    cycleBefore,    \* history: the store when the cycle began
    \* ---- DucoPollingService._run_loop, _scan_network, _poll_system ----
    wallNow,        \* datetime.now(), in seconds
    last_network_scan, \* None, or the time of the last scan
    tickPc,         \* "tick", "system", "nodes", or "manual" (in poll_now)
    tickStats,      \* self.stats: polls and system_updates
    tickLog,        \* history of the iteration or manual poll under way
    \* ---- NikoCallbackService: start() and the callbacks, step by step ----
    cachedState,    \* devices_cache: per UUID the state of its device
    syncPc,         \* start(): "idle", "registered", "listed", "cached", "done"
    devices_data,   \* what list_devices returned: per UUID a state
    evPc,           \* _on_device_event: "idle", "cached", "handled"
    evDevice,       \* the entry the handler works on
    evLog,          \* history: per UUID the last entry handled
    miscEvent,      \* history: the last other event handled
    \* ---- DucoModbusClient: the registers its calls address ----
    register_offset, \* self.register_offset
    clientCall,     \* history: the last call of the client and its accesses
    \* ---- start() and stop() called again and again, and the threads ----
    svcRunning,     \* self.running
    svcThread,      \* self.thread: 0 for None, else the thread created last
    loopThreads,    \* per thread, where it is in _run_loop
    joinPc          \* stop(): "none", or "joining" while it waits in join

varsTemp   == <<tempRaw, tempOut, tempPc>>
varsWrite  == <<now, lastWriteTime, wPc, wWakeAt, wResult, wCalls, issueTimes>>
varsInsert == <<dbRows, dbConn, insPc, insBatch, insRetry, insResult, insEntry,
                insLog>>
varsDisc   == <<bitRegs, discResult, discPc>>
varsPoll   == <<active_nodes, nodeTypeCache, pollPc, pollList, pollIdx,
                toPublish, pollHanded, pollNoData, pollStats>>
varsCollect == <<kvDucobox, kvNodes, collected, collectPc>>
varsCore   == <<varsTemp, varsWrite, varsInsert, varsDisc, varsPoll,
                varsCollect>>
varsZone   == <<zoneTemp, zoneReg, zoneErr, zoneOut, zonePc>>
varsPub    == <<kvStore, kvNow, key_prefix, enable_pubsub, pubPc, pubCalls,
                pubCall, pubNotes, pubWritten>>
varsLoop   == <<service, running, interval, loopPc, waitLeft, loopStats, stopPc,
                joinSecs, cycleBit, lateSleep, lastCycle>>
varsOps    == <<opPc, opCall>>
varsNiko   == <<nikoRunning, devices_cache, nikoStats, nikoLast, nikoDeleted>>
varsConv   == <<api_data, new_device>>
varsCycle  == <<utcNow, cyclePc, cycleBatch, cycleStats, cycleBefore>>
varsTick   == <<wallNow, last_network_scan, tickPc, tickStats, tickLog>>
varsThreads == <<svcRunning, svcThread, loopThreads, joinPc>>
varsClient == <<register_offset, clientCall>>
varsSync   == <<cachedState, syncPc, devices_data, evPc, evDevice, evLog,
                miscEvent>>
varsExt    == <<varsZone, varsPub, varsLoop, varsOps, varsNiko, varsConv,
                varsCycle, varsTick, varsSync, varsClient, varsThreads>>
vars       == <<varsCore, varsExt>>

\* What an action of one component leaves alone.
xTemp    == <<varsWrite, varsInsert, varsDisc, varsPoll, varsCollect,
              varsExt>>
xWrite   == <<varsTemp, varsInsert, varsDisc, varsPoll, varsCollect,
              varsExt>>
xInsert  == <<varsTemp, varsWrite, varsDisc, varsPoll, varsCollect,
              varsExt>>
xDisc    == <<varsTemp, varsWrite, varsInsert, varsPoll, varsCollect,
              varsExt>>
xPoll    == <<varsTemp, varsWrite, varsInsert, varsDisc, varsCollect,
              varsExt>>
xCollect == <<varsTemp, varsWrite, varsInsert, varsDisc, varsPoll,
              varsExt>>
xZone    == <<varsCore, varsPub, varsLoop, varsOps, varsNiko, varsConv,
              varsCycle,
              varsTick, varsSync,
              varsClient, varsThreads>>
xPub     == <<varsCore, varsZone, varsLoop, varsOps, varsNiko, varsConv,
              varsCycle,
              varsTick, varsSync,
              varsClient, varsThreads>>
xLoop    == <<varsCore, varsZone, varsPub, varsOps, varsNiko, varsConv,
              varsCycle,
              varsTick, varsSync,
              varsClient, varsThreads>>
xOps     == <<varsCore, varsZone, varsPub, varsNiko, varsConv,
              varsCycle,
              varsTick, varsSync,
              varsClient, varsThreads>>
xNiko    == <<varsCore, varsZone, varsLoop, varsOps, varsConv, varsCycle,
              kvNow,
              key_prefix, enable_pubsub, pubPc, pubCalls, pubCall, pubNotes,
              pubWritten,
              varsTick, varsSync,
              varsClient, varsThreads>>
xCycle   == <<varsCore, varsZone, varsLoop, varsOps, varsNiko, varsConv,
              kvNow, key_prefix, enable_pubsub, pubPc, pubCalls, pubCall,
              pubNotes, pubWritten,
              varsTick, varsSync,
              varsClient, varsThreads>>
xTick    == <<varsTemp, varsWrite, varsInsert, varsDisc, varsCollect,
              nodeTypeCache, pollPc, pollList, pollIdx, toPublish, pollHanded,
              pollNoData, pollStats, varsZone, varsPub, varsLoop, varsOps,
              varsNiko, varsConv, varsCycle, varsSync,
              varsClient, varsThreads>>
xSync    == <<varsCore, varsZone, varsLoop, varsOps, varsConv, varsCycle,
              varsTick, kvNow, key_prefix, enable_pubsub, pubPc, pubCalls,
              pubCall, pubNotes, pubWritten, nikoLast, nikoDeleted,
              varsClient, varsThreads>>
xClient  == <<varsTemp, varsWrite, varsInsert, varsDisc, varsCollect,
              active_nodes, pollPc, pollList, pollIdx, toPublish, pollHanded,
              pollNoData, pollStats, varsZone, varsPub, varsLoop, varsOps,
              varsNiko, varsConv, varsCycle, varsTick, varsSync, varsThreads>>
xThreads == <<varsCore, varsZone, varsPub, varsLoop, varsOps, varsNiko,
              varsConv, varsCycle, varsTick, varsSync, varsClient>>
xConv    == <<varsCore, varsZone, varsPub, varsLoop, varsOps, varsNiko,
              varsCycle,
              varsTick, varsSync,
              varsClient, varsThreads>>

None      == <<>>
Some(v)   == <<v>>
IsNone(o) == o = <<>>
Val(o)    == o[1]

(***************************************************************************)
(* Temperature decoding                                                    *)
(***************************************************************************)
RegisterMax == 65536 - 1

\* A fault of the decoder: the sign threshold taken one too high.
ConvertTemperature_gt(value) ==
    IF IsNone(value) THEN None
    ELSE IF Val(value) > 32768 THEN Some(Val(value) - 65536)
    ELSE Some(Val(value))

\* _convert_temperature, in tenths of a degree.
ConvertTemperature(value) ==
    IF IsNone(value) THEN None
    ELSE IF Val(value) >= 32768 THEN Some(Val(value) - 65536)
    ELSE Some(Val(value))

\* What read_input_register / read_holding_register may return.
RegisterReads == {None} \cup {Some(v) : v \in 0..RegisterMax}

TempIdle == tempRaw = None /\ tempOut = None /\ tempPc = "done"

\* get_temperature_*: the value read from the register is returned through
\* _convert_temperature.
TempConvert ==
    /\ tempPc = "read"
    /\ tempOut' = ConvertTemperature(tempRaw)
    /\ tempPc' = "done"
    /\ UNCHANGED tempRaw
    /\ UNCHANGED xTemp

(***************************************************************************)
(* Write-rate limiting                                                     *)
(***************************************************************************)
WRITE_INTERVAL == 2

NumCallers == 2
MaxWrites  == 3
MaxClock   == 8

Callers == 1..NumCallers

\* __init__ sets _last_write_time = 0; the clock reads the epoch time, which
\* is later than WRITE_INTERVAL.
WriteIdle ==
    /\ now = WRITE_INTERVAL + 1
    /\ lastWriteTime = 0
    /\ wPc = [c \in Callers |-> "idle"]
    /\ wWakeAt = [c \in Callers |-> 0]
    /\ wResult = [c \in Callers |-> None]
    /\ wCalls = 0
    /\ issueTimes = <<>>

\* A fault of the limiter: the delay is computed but not slept.
SleepFor_none(elapsed) == 0

\* _enforce_write_limit: how long to sleep for a measured elapsed time.
SleepFor(elapsed) ==
    IF elapsed < WRITE_INTERVAL THEN WRITE_INTERVAL - elapsed ELSE 0

\* The wall clock advances.
Tick ==
    /\ now < MaxClock
    /\ now' = now + 1
    /\ UNCHANGED <<lastWriteTime, wPc, wWakeAt, wResult, wCalls, issueTimes>>
    /\ UNCHANGED xWrite

\* A caller enters write_register (through set_ventilation_mode,
\* identify_node, ...) while others may be inside it.
WriteCall(c) ==
    /\ wPc[c] = "idle"
    /\ wCalls < MaxWrites
    /\ wPc' = [wPc EXCEPT ![c] = "enforce"]
    /\ wCalls' = wCalls + 1
    /\ wResult' = [wResult EXCEPT ![c] = None]
    /\ UNCHANGED <<now, lastWriteTime, wWakeAt, issueTimes>>
    /\ UNCHANGED xWrite

\* The same, for callers that call one after another.
WriteCallSeq(c) ==
    /\ \A d \in Callers : wPc[d] = "idle"
    /\ WriteCall(c)

\* _enforce_write_limit, lines 262-264: measure elapsed, start the sleep.
EnforceCheck(c) ==
    /\ wPc[c] = "enforce"
    /\ LET d == SleepFor(now - lastWriteTime) IN
         IF d > 0
         THEN /\ wPc' = [wPc EXCEPT ![c] = "sleep"]
              /\ wWakeAt' = [wWakeAt EXCEPT ![c] = now + d]
         ELSE /\ wPc' = [wPc EXCEPT ![c] = "stamp"]
              /\ UNCHANGED wWakeAt
    /\ UNCHANGED <<now, lastWriteTime, wResult, wCalls, issueTimes>>
    /\ UNCHANGED xWrite

\* time.sleep returns, not before the requested delay has passed.
SleepWake(c) ==
    /\ wPc[c] = "sleep"
    /\ now >= wWakeAt[c]
    /\ wPc' = [wPc EXCEPT ![c] = "stamp"]
    /\ UNCHANGED <<now, lastWriteTime, wWakeAt, wResult, wCalls, issueTimes>>
    /\ UNCHANGED xWrite

\* _enforce_write_limit line 265 and write_register lines 341-352: the
\* timestamp is taken and the register write is issued; no blocking call
\* separates the two.
StampAndIssue(c) ==
    /\ wPc[c] = "stamp"
    /\ lastWriteTime' = now
    /\ issueTimes' = Append(issueTimes, now)
    /\ wPc' = [wPc EXCEPT ![c] = "io"]
    /\ UNCHANGED <<now, wWakeAt, wResult, wCalls>>
    /\ UNCHANGED xWrite

\* write_register lines 352-358: the transport answers, reports an error or
\* raises; the call returns True or False.
WriteOutcomes == {"ok", "error", "raised"}

WriteReturn(c, outcome) ==
    /\ wPc[c] = "io"
    /\ wPc' = [wPc EXCEPT ![c] = "idle"]
    /\ wResult' = [wResult EXCEPT ![c] = Some(outcome = "ok")]
    /\ UNCHANGED <<now, lastWriteTime, wWakeAt, wCalls, issueTimes>>
    /\ UNCHANGED xWrite

(***************************************************************************)
(* The measurements table and insert_measurements                          *)
(*                                                                         *)
(* A row is <<time, device_id, measurement_type, value>>; the columns      *)
(* device_type, location, unit and metadata take no part in the key and    *)
(* are left out.  The table is a bag of rows.                              *)
(***************************************************************************)
Stamps           == {1, 2}
DeviceIds        == {"node_5"}
MeasurementTypes == {"humidity"}
RowValues        == {45, 46}

MaxBatch == 2

Points == Stamps \X DeviceIds \X MeasurementTypes \X RowValues

Batches == UNION {[1..n -> Points] : n \in 0..MaxBatch}

Key(p) == <<p[1], p[2], p[3]>>

NoRows == [p \in Points |-> 0]

\* A table without the unique index: no insert ever conflicts.
Conflicts_noindex(rows, p) == FALSE

\* measurements_unique_idx on (time, device_id, measurement_type): a row
\* conflicts when the table holds a row with its key.
Conflicts(rows, p) == \E r \in Points : rows[r] > 0 /\ Key(r) = Key(p)

AddRow(rows, p) == [rows EXCEPT ![p] = @ + 1]

\* INSERT ... VALUES ... ON CONFLICT (time, device_id, measurement_type)
\* DO NOTHING, one statement for the batch.
RECURSIVE InsertSkipping(_, _)
InsertSkipping(rows, batch) ==
    IF batch = <<>> THEN rows
    ELSE InsertSkipping(IF Conflicts(rows, Head(batch)) THEN rows
                        ELSE AddRow(rows, Head(batch)),
                        Tail(batch))

\* INSERT ... VALUES ... without ON CONFLICT: the statement raises a unique
\* violation when any of its rows conflicts, and then inserts nothing.
RECURSIVE AnyConflict(_, _)
AnyConflict(rows, batch) ==
    /\ batch # <<>>
    /\ \/ Conflicts(rows, Head(batch))
       \/ AnyConflict(AddRow(rows, Head(batch)), Tail(batch))

RECURSIVE InsertAll(_, _)
InsertAll(rows, batch) ==
    IF batch = <<>> THEN rows
    ELSE InsertAll(AddRow(rows, Head(batch)), Tail(batch))

\* _insert_measurements_without_conflict, lines 388-423: one INSERT and one
\* commit per row; a row that raises (a unique violation, or any other error:
\* the rows at the indices in `fails`) is rolled back and skipped.  Rows
\* first..last are processed.
RECURSIVE RowByRow(_, _, _, _, _)
RowByRow(rows, batch, first, last, fails) ==
    IF first > last THEN rows
    ELSE RowByRow(IF first \in fails \/ Conflicts(rows, batch[first])
                  THEN rows
                  ELSE AddRow(rows, batch[first]),
                  batch, first + 1, last, fails)

max_retries == 2

NoLog == [bulkFails |-> 0, fallbacks |-> 0, reconnects |-> 0,
          simpleTries |-> 0, path |-> "none", err |-> "none"]

InsertIdle ==
    /\ dbRows = NoRows
    /\ dbConn = FALSE
    /\ insPc = "idle"
    /\ insBatch = <<>>
    /\ insRetry = 0
    /\ insResult = None
    /\ insEntry = [rows |-> NoRows, conn |-> FALSE]
    /\ insLog = NoLog

\* _safe_rollback: an open connection stays open when the rollback or the
\* reconnect after a failed rollback succeeds (keep), and is lost otherwise.
SafeRollback(conn, keep) == conn /\ keep

\* Lines 356-375: after a failed attempt, the position the call goes to.
AfterFailure(retry) == IF retry > max_retries THEN "reconnect" ELSE "bulk"

\* A fault of the last resort: the call gives up after a successful
\* reconnect without retrying the batch.
AfterReconnect_noretry(connected) == "done"

\* Lines 360-366: after disconnect() and connect().
AfterReconnect(connected) == IF connected THEN "simple" ELSE "done"

\* insert_measurements, lines 277-289.
InsertCall(batch, connectOk) ==
    /\ insPc = "idle"
    /\ insBatch' = batch
    /\ insRetry' = 0
    /\ insLog' = NoLog
    /\ insEntry' = [rows |-> dbRows, conn |-> dbConn]
    /\ IF batch = <<>>
       THEN /\ insPc' = "done"
            /\ insResult' = Some(TRUE)
            /\ UNCHANGED dbConn
       ELSE IF ~dbConn /\ ~connectOk
       THEN /\ insPc' = "done"
            /\ insResult' = Some(FALSE)
            /\ UNCHANGED dbConn
       ELSE /\ insPc' = "bulk"
            /\ insResult' = None
            /\ dbConn' = TRUE
    /\ UNCHANGED dbRows
    /\ UNCHANGED xInsert

\* Lines 291-335: the bulk insert and its commit succeed.
BulkOk ==
    /\ insPc = "bulk"
    /\ dbConn
    /\ dbRows' = InsertSkipping(dbRows, insBatch)
    /\ insPc' = "done"
    /\ insResult' = Some(TRUE)
    /\ insLog' = [insLog EXCEPT !.path = "bulk"]
    /\ UNCHANGED <<dbConn, insBatch, insRetry, insEntry>>
    /\ UNCHANGED xInsert

\* Lines 337-347: the bulk insert raises and the error text names a unique
\* constraint or a duplicate key.
BulkDuplicateError(keep) ==
    /\ insPc = "bulk"
    /\ dbConn
    /\ dbConn' = SafeRollback(dbConn, keep)
    /\ insPc' = "fallback"
    /\ insLog' = [insLog EXCEPT !.bulkFails = @ + 1]
    /\ UNCHANGED <<dbRows, insBatch, insRetry, insResult, insEntry>>
    /\ UNCHANGED xInsert

\* Lines 337-375: the bulk insert raises any other error (also: self.conn is
\* None or closed).
BulkOtherError(keep) ==
    /\ insPc = "bulk"
    /\ dbConn' = SafeRollback(dbConn, keep)
    /\ insRetry' = insRetry + 1
    /\ insPc' = AfterFailure(insRetry + 1)
    /\ insLog' = [insLog EXCEPT !.bulkFails = @ + 1]
    /\ UNCHANGED <<dbRows, insBatch, insResult, insEntry>>
    /\ UNCHANGED xInsert

\* Lines 347-349 and _insert_measurements_without_conflict run to its end.
FallbackOk(connectOk, fails) ==
    /\ insPc = "fallback"
    /\ dbConn \/ connectOk
    /\ fails \subseteq (1..Len(insBatch))
    /\ dbConn' = TRUE
    /\ dbRows' = RowByRow(dbRows, insBatch, 1, Len(insBatch), fails)
    /\ insPc' = "done"
    /\ insResult' = Some(TRUE)
    /\ insLog' = [insLog EXCEPT !.fallbacks = @ + 1, !.path = "fallback"]
    /\ UNCHANGED <<insBatch, insRetry, insEntry>>
    /\ UNCHANGED xInsert

\* _insert_measurements_without_conflict returns False: no connection (lines
\* 381-382), or an error outside the per-row handlers (lines 429-432) after
\* `done` rows were processed.  insert_measurements goes on at line 354.
FallbackFails(connectOk, done, fails, keep) ==
    /\ insPc = "fallback"
    /\ done \in 0..(Len(insBatch) - 1)
    /\ fails \subseteq (1..done)
    /\ IF ~dbConn /\ ~connectOk
       THEN UNCHANGED <<dbRows, dbConn>>
       ELSE /\ dbRows' = RowByRow(dbRows, insBatch, 1, done, fails)
            /\ dbConn' = SafeRollback(TRUE, keep)
    /\ insRetry' = insRetry + 1
    /\ insPc' = AfterFailure(insRetry + 1)
    /\ insLog' = [insLog EXCEPT !.fallbacks = @ + 1]
    /\ UNCHANGED <<insBatch, insResult, insEntry>>
    /\ UNCHANGED xInsert

\* Lines 357-363: disconnect, sleep, connect.
Reconnect(connectOk) ==
    /\ insPc = "reconnect"
    /\ dbConn' = connectOk
    /\ insPc' = AfterReconnect(connectOk)
    /\ insResult' = IF AfterReconnect(connectOk) = "done" THEN Some(FALSE)
                    ELSE None
    /\ insLog' = [insLog EXCEPT !.reconnects = @ + 1,
                                !.path = "reconnect",
                                !.err = IF connectOk THEN "none" ELSE "connect"]
    /\ UNCHANGED <<dbRows, insBatch, insRetry, insEntry>>
    /\ UNCHANGED xInsert

\* Lines 366-372 and _insert_measurements_simple: the plain bulk insert.
\* It raises on the first conflicting row (unique violation) or on an I/O
\* error (ioError); nothing is inserted then.
SimpleInsert(ioError, keep) ==
    /\ insPc = "simple"
    /\ LET failed == ioError \/ AnyConflict(dbRows, insBatch) IN
         /\ dbRows' = IF failed THEN dbRows ELSE InsertAll(dbRows, insBatch)
         /\ dbConn' = IF failed THEN SafeRollback(dbConn, keep) ELSE dbConn
         /\ insResult' = Some(~failed)
         /\ insLog' = [insLog EXCEPT !.simpleTries = @ + 1,
                                     !.path = "simple",
                                     !.err = IF ioError THEN "io"
                                             ELSE IF failed THEN "unique"
                                             ELSE "none"]
    /\ insPc' = "done"
    /\ UNCHANGED <<insBatch, insRetry, insEntry>>
    /\ UNCHANGED xInsert

\* The call returns to its caller; its locals are gone.
InsertReturn ==
    /\ insPc = "done"
    /\ insPc' = "idle"
    /\ insBatch' = <<>>
    /\ insRetry' = 0
    /\ insResult' = None
    /\ insEntry' = [rows |-> NoRows, conn |-> FALSE]
    /\ insLog' = NoLog
    /\ UNCHANGED <<dbRows, dbConn>>
    /\ UNCHANGED xInsert

(***************************************************************************)
(* Network discovery                                                       *)
(***************************************************************************)
PresenceRegs == 0..8

\* value & (1 << bit)
BitSet(value, bit) == (value \div (2 ^ bit)) % 2 = 1

\* A fault of the scan: bits counted from 1.
NodeNumber_onebased(reg, bit) == reg * 16 + bit + 1

\* Lines 718 and 722: base_node + bit.
NodeNumber(reg, bit) == reg * 16 + bit

\* Lines 720-724: the bits of one register that add a node, in the order of
\* range(16), and the nodes they add.
NodeBits(reg, value) ==
    SelectSeq([i \in 1..16 |-> i - 1],
              LAMBDA bit : /\ BitSet(value, bit)
                           /\ 1 <= NodeNumber(reg, bit)
                           /\ NodeNumber(reg, bit) <= 143)

ScanBits(reg, value) ==
    LET bits == NodeBits(reg, value)
    IN  [i \in 1..Len(bits) |-> NodeNumber(reg, bits[i])]

\* Lines 715-724: the nine registers in turn; a failed read is skipped.
RECURSIVE ScanRegs(_, _, _)
ScanRegs(acc, regs, reg) ==
    IF reg > 8 THEN acc
    ELSE ScanRegs(IF IsNone(regs[reg]) THEN acc
                  ELSE acc \o ScanBits(reg, Val(regs[reg])),
                  regs, reg + 1)

\* sorted()
Sorted(sq) == SortSeq(sq, LAMBDA a, b : a < b)

\* get_active_nodes, for what the nine register reads return.
GetActiveNodes(regs) == Sorted(ScanRegs(<<>>, regs, 0))

\* Register contents used for the scan: no bit, the lowest, the highest, the
\* lowest and the highest, two inner bits, every bit; and a failed read.
PresenceSamples == {Some(1), Some(32768), Some(32769), Some(4128),
                    Some(65535), None}

MaxPresenceRegs == 2

AllZeroRegs == [r \in PresenceRegs |-> Some(0)]

\* The contents in which at most max registers are not zero.
PresenceContents(max) ==
    UNION { { [r \in PresenceRegs |-> IF r \in S THEN g[r] ELSE Some(0)] :
              g \in [S -> PresenceSamples] } :
            S \in { T \in SUBSET PresenceRegs :
                      Cardinality(T) <= max } }

DiscIdle == bitRegs = AllZeroRegs /\ discResult = <<>> /\ discPc = "done"

\* The client scans the registers and returns the list.
DiscScan ==
    /\ discPc = "ready"
    /\ discResult' = GetActiveNodes(bitRegs)
    /\ discPc' = "done"
    /\ UNCHANGED bitRegs
    /\ UNCHANGED xDisc

(***************************************************************************)
(* Node capabilities and the node poll                                     *)
(***************************************************************************)
\* NodeType: the codes of the enumeration; UNKNOWN is 0, DUCOBOX is 17.
NodeTypeCodes == {0, 7, 8, 9, 10, 12, 13, 14, 16, 17, 18, 22, 23, 25, 27, 28,
                  29, 30, 31, 35, 37, 38, 39, 40, 41, 42, 44, 45, 46}

\* The optional parameters of a node, in the order get_node_info reads them.
OptionalParams == <<"remaining_time", "flow_level", "air_quality_rh",
                    "air_quality_co2", "humidity", "co2">>

ParamSet == {OptionalParams[i] : i \in DOMAIN OptionalParams}

\* NODE_CAPABILITIES: the has_* and can_* flags that are set, per node type.
NODE_CAPABILITIES ==
    [t \in {7, 8, 9, 10, 12, 13, 14, 16, 18, 22, 23, 25, 28, 35, 37} |->
      CASE t = 8  -> {"remaining_time", "set_mode", "identify"}
        [] t = 9  -> {"remaining_time", "set_mode", "identify"}
        [] t = 10 -> {"air_quality_rh", "humidity", "set_mode", "identify"}
        [] t = 12 -> {"air_quality_co2", "co2", "set_mode", "identify"}
        [] t = 13 -> {"remaining_time", "flow_level", "set_mode", "identify"}
        [] t = 14 -> {"remaining_time", "flow_level", "air_quality_rh",
                      "humidity", "set_mode", "identify"}
        [] t = 16 -> {"remaining_time", "flow_level", "air_quality_co2",
                      "co2", "set_mode", "identify"}
        [] t = 18 -> {"remaining_time", "identify"}
        [] t = 22 -> {"remaining_time", "flow_level", "set_mode", "identify"}
        [] t = 23 -> {"remaining_time", "flow_level", "air_quality_rh",
                      "humidity", "set_mode", "identify"}
        [] t = 25 -> {"remaining_time", "flow_level", "air_quality_co2",
                      "co2", "set_mode", "identify"}
        [] t = 28 -> {"remaining_time", "flow_level", "air_quality_rh",
                      "air_quality_co2", "humidity", "co2", "set_mode",
                      "identify"}
        [] t = 35 -> {"humidity", "set_mode"}
        [] t = 37 -> {"co2", "set_mode"}
        [] t = 7  -> {"flow_level", "humidity", "set_mode", "identify"}]

\* NODE_CAPABILITIES.get(node_type)
HasCapabilities(t) == t \in DOMAIN NODE_CAPABILITIES

\* NodeType(value), with the ValueError branch of get_node_type.
ToNodeType(code) == IF code \in NodeTypeCodes THEN code ELSE 0

\* A fault of get_node_type: the type register is read at every call.
GetNodeType_nocache(cache, node, typeRead) ==
    IF IsNone(typeRead) THEN [type |-> None, cache |-> cache]
    ELSE [type |-> Some(ToNodeType(Val(typeRead))),
          cache |-> [cache EXCEPT ![node] = Some(ToNodeType(Val(typeRead)))]]

\* get_node_type: [type, cache] for a node, given what a read of its type
\* register would return.
GetNodeType(cache, node, typeRead) ==
    IF ~IsNone(cache[node]) THEN [type |-> cache[node], cache |-> cache]
    ELSE IF IsNone(typeRead) THEN [type |-> None, cache |-> cache]
    ELSE [type |-> Some(ToNodeType(Val(typeRead))),
          cache |-> [cache EXCEPT ![node] = Some(ToNodeType(Val(typeRead)))]]

\* get_node_remaining_time ... get_node_co2: None for a parameter the known
\* capabilities exclude, else what the register read returns.
GetNodeParam(t, param, reads) ==
    IF HasCapabilities(t) /\ param \notin NODE_CAPABILITIES[t] THEN None
    ELSE reads[param]

NoFields == [q \in ParamSet |-> None]

\* A fault of get_node_info: every parameter register is read, whatever the
\* capabilities say.
GetNodeInfo_allparams(t, reads) == [present |-> TRUE, fields |-> reads]

\* get_node_info for a node whose type is known: the dictionary has 'type',
\* and a parameter only when the capabilities have it and its read returned
\* a value.
GetNodeInfo(t, reads) ==
    [present |-> TRUE,
     fields  |-> IF ~HasCapabilities(t) THEN NoFields
                 ELSE [q \in ParamSet |->
                         IF q \in NODE_CAPABILITIES[t]
                         THEN GetNodeParam(t, q, reads)
                         ELSE None]]

\* Line 210: node_type == NodeType.DUCOBOX compares a member of the client's
\* NodeType (an Enum) with a member of the data model's NodeType (an
\* IntEnum); members of different enumerations are never equal.
IsDucoBox(t) == FALSE

\* Lines 222-235: the DucoNode built from node_info.
DucoNode(node, t, info) ==
    [node_id |-> node, node_type |-> t, fields |-> info.fields]

\* A fault of the poll: every record built is published.
HasData_always(rec) == TRUE

\* Lines 238-245: has_data.
HasData(rec) == \E q \in ParamSet : ~IsNone(rec.fields[q])

\* The nodes used in the poll, and the presence registers that announce a
\* set of them.
PollNodes == {5, 12}

PresenceFor(S) ==
    [r \in PresenceRegs |->
        Some(IF r = 0 THEN (IF 5 \in S THEN 32 ELSE 0)
                           + (IF 12 \in S THEN 4096 ELSE 0)
             ELSE 0)]

\* What get_active_nodes returns for each of them.
ScanResults == [S \in SUBSET PollNodes |-> GetActiveNodes(PresenceFor(S))]

\* What a read of a type register may return: nothing, a humidity sensor, a
\* CO2 sensor, a switch contact, the DucoBox, a type without capabilities,
\* a code outside the enumeration.
TypeReads == {None, Some(10), Some(12), Some(18), Some(17), Some(27),
              Some(99)}

\* The value a parameter register holds when its read succeeds.
ParamValue(q) ==
    CASE q = "remaining_time"  -> 0
      [] q = "flow_level"      -> 50
      [] q = "air_quality_rh"  -> 80
      [] q = "air_quality_co2" -> 90
      [] q = "humidity"        -> 45
      [] q = "co2"             -> 650

\* The reads of a node's parameter registers, when those in S succeed.
ParamReads(S) == [q \in ParamSet |-> IF q \in S THEN Some(ParamValue(q)) ELSE None]

\* The sets of parameter registers whose reads succeed: all, all but one, one,
\* none.
ReadOutcomes ==
    {ParamSet, {}} \cup {{q} : q \in ParamSet}
                   \cup {ParamSet \ {q} : q \in ParamSet}

PollIdle ==
    /\ active_nodes = <<>>
    /\ nodeTypeCache = [n \in PollNodes |-> None]
    /\ pollPc = "idle"
    /\ pollList = <<>>
    /\ pollIdx = 0
    /\ toPublish = <<>>
    /\ pollHanded = None
    /\ pollNoData = {}
    /\ pollStats = [errors |-> 0, node_updates |-> 0]

MaxErrors  == 2
MaxUpdates == 2

Capped(n, max) == IF n > max THEN max ELSE n

\* _scan_network: the list from get_active_nodes replaces active_nodes.  The
\* control loop runs it in its own thread, so it may fall within a poll that
\* poll_now started.
ScanNetwork(S) ==
    /\ active_nodes' = ScanResults[S]
    /\ UNCHANGED <<nodeTypeCache, pollPc, pollList, pollIdx, toPublish,
                   pollHanded, pollNoData, pollStats>>
    /\ UNCHANGED xPoll

\* _poll_nodes, lines 195-198 (from _run_loop or from poll_now).
PollNodesStart ==
    /\ pollPc = "idle"
    /\ pollPc' = IF active_nodes = <<>> THEN "idle" ELSE "loop"
    /\ pollList' = active_nodes
    /\ pollIdx' = IF active_nodes = <<>> THEN 0 ELSE 1
    /\ toPublish' = <<>>
    /\ pollHanded' = None
    /\ pollNoData' = {}
    /\ UNCHANGED <<active_nodes, nodeTypeCache, pollStats>>
    /\ UNCHANGED xPoll

\* A fault of the loop: an exception raised for one node ends the loop, and
\* the nodes after it are not polled.
PollOneNode_abort(typeRead, S, raises) ==
    /\ pollPc = "loop"
    /\ pollIdx <= Len(pollList)
    /\ IsNone(nodeTypeCache[pollList[pollIdx]]) \/ IsNone(typeRead)
    /\ LET node == pollList[pollIdx]
           got  == GetNodeType(nodeTypeCache, node, typeRead)
           t    == Val(got.type)
           rec  == DucoNode(node, t, GetNodeInfo(t, ParamReads(S)))
       IN
         /\ nodeTypeCache' = got.cache
         /\ IF IsNone(got.type) \/ IsDucoBox(t)
            THEN /\ pollIdx' = pollIdx + 1
                 /\ UNCHANGED <<toPublish, pollNoData, pollStats>>
            ELSE IF raises
            THEN /\ pollStats' = [pollStats EXCEPT
                                    !.errors = Capped(@ + 1, MaxErrors)]
                 /\ pollIdx' = Len(pollList) + 1
                 /\ UNCHANGED <<toPublish, pollNoData>>
            ELSE IF HasData(rec)
            THEN /\ toPublish' = Append(toPublish, rec)
                 /\ pollIdx' = pollIdx + 1
                 /\ UNCHANGED <<pollNoData, pollStats>>
            ELSE /\ pollNoData' = pollNoData \cup {node}
                 /\ pollIdx' = pollIdx + 1
                 /\ UNCHANGED <<toPublish, pollStats>>
    /\ UNCHANGED <<active_nodes, pollPc, pollList, pollHanded>>
    /\ UNCHANGED xPoll

\* _poll_nodes, lines 200-258: one iteration of the loop.  typeRead is what
\* the node's type register returns if it is read, S the parameter registers
\* whose reads succeed, raises an exception raised after the type is known.
\* A cached type leaves the type register unread.
PollOneNode(typeRead, S, raises) ==
    /\ pollPc = "loop"
    /\ pollIdx <= Len(pollList)
    /\ IsNone(nodeTypeCache[pollList[pollIdx]]) \/ IsNone(typeRead)
    /\ LET node == pollList[pollIdx]
           got  == GetNodeType(nodeTypeCache, node, typeRead)
           t    == Val(got.type)
           rec  == DucoNode(node, t, GetNodeInfo(t, ParamReads(S)))
       IN
         /\ nodeTypeCache' = got.cache
         /\ IF IsNone(got.type) \/ IsDucoBox(t)
            THEN UNCHANGED <<toPublish, pollNoData, pollStats>>
            ELSE IF raises
            THEN /\ pollStats' = [pollStats EXCEPT
                                    !.errors = Capped(@ + 1, MaxErrors)]
                 /\ UNCHANGED <<toPublish, pollNoData>>
            ELSE IF HasData(rec)
            THEN /\ toPublish' = Append(toPublish, rec)
                 /\ UNCHANGED <<pollNoData, pollStats>>
            ELSE /\ pollNoData' = pollNoData \cup {node}
                 /\ UNCHANGED <<toPublish, pollStats>>
    /\ pollIdx' = pollIdx + 1
    /\ UNCHANGED <<active_nodes, pollPc, pollList, pollHanded>>
    /\ UNCHANGED xPoll

\* _poll_nodes, lines 260-266: the batch goes to publish_duco_network, which
\* returns how many records it wrote: those it could serialise, or 0 when
\* the pipeline failed.
PollPublish(count) ==
    /\ pollPc = "loop"
    /\ pollIdx > Len(pollList)
    /\ count <= Len(toPublish)
    /\ IF toPublish # <<>>
       THEN /\ pollHanded' = Some(toPublish)
            /\ pollStats' = [pollStats EXCEPT
                 !.node_updates =
                    Capped(@ + count, MaxUpdates)]
       ELSE UNCHANGED <<pollHanded, pollStats>>
    /\ pollPc' = "handed"
    /\ UNCHANGED <<active_nodes, nodeTypeCache, pollList, pollIdx, toPublish,
                   pollNoData>>
    /\ UNCHANGED xPoll

\* _poll_nodes returns.
PollReturn ==
    /\ pollPc = "handed"
    /\ pollPc' = "idle"
    /\ pollList' = <<>>
    /\ pollIdx' = 0
    /\ toPublish' = <<>>
    /\ pollHanded' = None
    /\ pollNoData' = {}
    /\ UNCHANGED <<active_nodes, nodeTypeCache, pollStats>>
    /\ UNCHANGED xPoll

(***************************************************************************)
(* The time-series collector                                               *)
(***************************************************************************)
\* A value found in a snapshot: nothing, a number, a string that float()
\* parses, a blank string, a string that float() rejects.
NoReading    == [kind |-> "none", v |-> 0]
Number(n)    == [kind |-> "num", v |-> n]
NumString(n) == [kind |-> "str", v |-> n]
BlankString  == [kind |-> "blank", v |-> 0]
TextString   == [kind |-> "text", v |-> 0]

\* float(value), where it is defined.
ToFloat(reading) == reading.v

\* A fault of the filter: only the percentage range is accepted.
InAnyRange_percent(n) == 0 <= n /\ n <= 100

\* Lines 936-944: the three range tests, tried in turn.
InAnyRange(n) ==
    \/ (-50 <= n /\ n <= 100)
    \/ (0 <= n /\ n <= 100)
    \/ (0 <= n /\ n <= 5000)

\* _is_valid_measurement
IsValidMeasurement(reading) ==
    CASE reading.kind = "none"  -> FALSE
      [] reading.kind = "blank" -> FALSE
      [] reading.kind = "text"  -> FALSE
      [] OTHER                  -> InAnyRange(ToFloat(reading))

\* The fields _collect_duco_measurements looks at, in its order: those of the
\* DucoBox snapshot and those of a node snapshot.
DucoboxFields == <<"humidity_level", "co2_level", "air_quality_rh",
                   "air_quality_co2", "temperature_oda", "temperature_sup",
                   "temperature_eta", "temperature_eha", "flow_rate">>

NodeFields == <<"humidity_level", "co2_level", "flow_rate">>

\* measurement_type and unit of the point built from a field.
MeasurementType(field) ==
    CASE field = "humidity_level"  -> "humidity"
      [] field = "co2_level"       -> "co2"
      [] field = "temperature_oda" -> "outdoor_air_temp"
      [] field = "temperature_sup" -> "supply_air_temp"
      [] field = "temperature_eta" -> "extract_air_temp"
      [] field = "temperature_eha" -> "exhaust_air_temp"
      [] OTHER                     -> field

Unit(field) ==
    CASE field = "co2_level" -> "ppm"
      [] field \in {"temperature_oda", "temperature_sup", "temperature_eta",
                    "temperature_eha"} -> "degC"
      [] OTHER -> "%"

\* The points appended for one snapshot: one per field whose value passes
\* _is_valid_measurement.
PointsOf(device, snapshot, fields) ==
    LET valid == SelectSeq(fields,
                           LAMBDA f : IsValidMeasurement(snapshot[f]))
    IN  [i \in 1..Len(valid) |->
            [device_id        |-> device,
             measurement_type |-> MeasurementType(valid[i]),
             value            |-> ToFloat(snapshot[valid[i]]),
             unit             |-> Unit(valid[i])]]

RECURSIVE NodePoints(_)
NodePoints(nodes) ==
    IF nodes = <<>> THEN <<>>
    ELSE PointsOf(Head(nodes).node_id, Head(nodes).fields, NodeFields)
         \o NodePoints(Tail(nodes))

\* _collect_duco_measurements
CollectDucoMeasurements(ducobox, nodes) ==
    (IF IsNone(ducobox) THEN <<>>
     ELSE PointsOf("ducobox_main", Val(ducobox), DucoboxFields))
    \o NodePoints(nodes)

\* The values used in snapshots.
SampleNumbers == {-60, -50, -20, 0, 45, 100, 150, 200, 5000, 6000}

Readings ==
    {Number(n) : n \in SampleNumbers} \cup {NumString(45), NumString(150)}
    \cup {BlankString, TextString}

MaxPopulated == 1

FieldSet(fields) == {fields[i] : i \in DOMAIN fields}

\* The snapshots over a set of fields in which at most k fields hold a value.
Snapshots(F, k) ==
    UNION { { [f \in F |-> IF f \in S THEN g[f] ELSE NoReading] :
              g \in [S -> Readings] } :
            S \in { T \in SUBSET F : Cardinality(T) <= k } }

\* What get_ducobox may return: nothing, or a snapshot with at most k values.
BoxContents(k) ==
    {None} \cup {Some(x) : x \in Snapshots(FieldSet(DucoboxFields), k)}

\* What get_all_duco_nodes may return: no node, or node 5 with at most k
\* values.
NodeContents(k) ==
    {<<>>} \cup {<<[node_id |-> "node_5", fields |-> x]>> :
                   x \in Snapshots(FieldSet(NodeFields), k)}

CollectIdle ==
    /\ kvDucobox = None
    /\ kvNodes = <<>>
    /\ collected = <<>>
    /\ collectPc = "done"

\* The collector reads the snapshots and returns the list of points.
CollectDuco ==
    /\ collectPc = "ready"
    /\ collected' = CollectDucoMeasurements(kvDucobox, kvNodes)
    /\ collectPc' = "done"
    /\ UNCHANGED <<kvDucobox, kvNodes>>
    /\ UNCHANGED xCollect

(***************************************************************************)
(* Supply temperature zones                                                *)
(***************************************************************************)
\* The temperatures asked for, in hundredths of a degree: both ends of
\* [-3276.8, 3276.7] and the values around zero.
ZoneTemps == (-327680 .. -327600) \cup (-300 .. 300) \cup (327600 .. 327670)

\* int(temperature * 10): the tenths, truncated towards zero.
IntTimes10(h) == IF h >= 0 THEN h \div 10 ELSE -((-h) \div 10)

\* The value handed to write_register.
EncodedValue(h) == IntTimes10(h)

\* A holding register holds 0..65535: the Modbus request packs the value as
\* an unsigned 16-bit number and raises for any other value, which
\* write_register turns into False.
Encodable(value) == 0 <= value /\ value <= RegisterMax

\* The register content at the start: 21.0 degrees.
ZoneIdle ==
    /\ zoneTemp = 0
    /\ zoneReg = 210
    /\ zoneErr = "none"
    /\ zoneOut = None
    /\ zonePc = "done"

\* set_supply_temperature_zone: the register takes the value unless the value
\* cannot be packed or the transport fails.
SetSupplyTemperatureZone(transportOk) ==
    /\ zonePc = "ready"
    /\ zonePc' = "set"
    /\ IF ~Encodable(EncodedValue(zoneTemp))
       THEN zoneErr' = "encode" /\ UNCHANGED zoneReg
       ELSE IF ~transportOk
       THEN zoneErr' = "transport" /\ UNCHANGED zoneReg
       ELSE zoneErr' = "none" /\ zoneReg' = EncodedValue(zoneTemp)
    /\ UNCHANGED <<zoneTemp, zoneOut>>
    /\ UNCHANGED xZone

\* get_supply_temperature_zone: the register, if its read succeeds, through
\* _convert_temperature.
GetSupplyTemperatureZone(readOk) ==
    /\ zonePc = "set"
    /\ zonePc' = "done"
    /\ zoneOut' = ConvertTemperature(IF readOk THEN Some(zoneReg) ELSE None)
    /\ UNCHANGED <<zoneTemp, zoneReg, zoneErr>>
    /\ UNCHANGED xZone

(***************************************************************************)
(* The Redis publisher                                                     *)
(***************************************************************************)
\* KEY_PATTERNS: a key is kept as the list of its ':'-separated parts, the
\* last of which is the key parameter.
KEY_PATTERNS ==
    [ducobox_system |-> <<"duco", "system">>,
     duco_node      |-> <<"duco", "node">>,
     niko_device    |-> <<"niko", "device">>,
     niko_location  |-> <<"niko", "location">>]

DUCO_TTL == 300

\* A fault of the table: no pattern has an expiration.
DefaultTtl_never(pattern) == None

\* DEFAULT_TTLS.get(pattern_name, 0), with None for "no expiration".
DefaultTtl(pattern) ==
    IF pattern \in {"ducobox_system", "duco_node"} THEN Some(DUCO_TTL)
    ELSE None

\* _build_key
BuildKey(prefix, pattern, param) ==
    (IF IsNone(prefix) THEN <<>> ELSE <<Val(prefix)>>)
        \o KEY_PATTERNS[pattern] \o <<param>>

\* A fault of the channel name: the key itself.
Channel_bare(key) == key

\* f"updates:{key}"
Channel(key) == <<"updates">> \o key

\* The record identities published: the DucoBox, two nodes, a Niko device and
\* a Niko location.
Identities ==
    {[pattern |-> "ducobox_system", param |-> "ducobox_main"],
     [pattern |-> "duco_node", param |-> "5"],
     [pattern |-> "duco_node", param |-> "12"],
     [pattern |-> "niko_device", param |-> "u1"],
     [pattern |-> "niko_location", param |-> "l1"]}

DucoIdentities == {i \in Identities :
                     i.pattern \in {"ducobox_system", "duco_node"}}

KeyOf(i) == BuildKey(key_prefix, i.pattern, i.param)

\* The serialized payloads.
Payloads == {"v1", "v2"}

\* A fault of the store: SET adds a value and keeps the old one.
StoreSet_append(st, key, value, ttl, t) ==
    st \cup {[key |-> key, value |-> value,
              expireAt |-> IF IsNone(ttl) THEN None ELSE Some(t + Val(ttl))]}

\* Redis SET / SETEX at time t: the key's value and expiration are replaced.
StoreSet(st, key, value, ttl, t) ==
    {e \in st : e.key # key}
        \cup {[key |-> key, value |-> value,
               expireAt |-> IF IsNone(ttl) THEN None ELSE Some(t + Val(ttl))]}

\* The keys Redis still has at time t.
Live(st, t) == {e \in st : IsNone(e.expireAt) \/ t < Val(e.expireAt)}

\* Redis GET
StoreGet(st, key) == {e.value : e \in {x \in st : x.key = key}}

MaxPublishes == 2
MaxTicks == 2

\* The clock advances by half a DUCO lifetime at a time.
ClockStep == DUCO_TTL \div 2

NoCall ==
    [op |-> "none", items |-> <<>>, payload |-> "", fault |-> "none",
     serFails |-> {}, wrote |-> FALSE, ok |-> FALSE, success |-> 0,
     failed |-> 0, before |-> {}]

NeverWritten == [i \in Identities |-> None]

PubIdle ==
    /\ kvStore = {}
    /\ kvNow = 0
    /\ key_prefix = None
    /\ enable_pubsub = TRUE
    /\ pubPc = "idle"
    /\ pubCalls = 0
    /\ pubCall = NoCall
    /\ pubNotes = <<>>
    /\ pubWritten = NeverWritten

\* What can go wrong in a call: json serialization raises, the Redis write
\* raises, the Redis PUBLISH raises.
Faults == {"none", "serialize", "store", "notify"}

\* The notification publish_device sends once the key is written; stored
\* tells whether the key held the payload at that time.
Notification(st, key, payload) ==
    [channel |-> Channel(key), payload |-> payload,
     stored |-> StoreGet(st, key) = {payload}]

\* publish_ducobox, publish_duco_node, publish_niko_device and
\* publish_niko_location: publish_device(device, pattern, ttl=None, param).
PublishDevice(i, payload, fault) ==
    /\ pubPc = "idle"
    /\ pubCalls < MaxPublishes
    /\ LET key     == KeyOf(i)
           wrote   == fault \notin {"serialize", "store"}
           written == StoreSet(kvStore, key, payload, DefaultTtl(i.pattern),
                               kvNow)
           raised  == ~wrote \/ (enable_pubsub /\ fault = "notify")
       IN  /\ kvStore' = IF wrote THEN written ELSE kvStore
           /\ pubWritten' = IF wrote
                            THEN [pubWritten EXCEPT
                                    ![i] = Some([value |-> payload,
                                                 at |-> kvNow])]
                            ELSE pubWritten
           /\ pubNotes' = IF wrote /\ enable_pubsub /\ fault # "notify"
                          THEN <<Notification(written, key, payload)>>
                          ELSE <<>>
           /\ pubCall' = [NoCall EXCEPT !.op = "device", !.items = <<i>>,
                            !.payload = payload, !.fault = fault,
                            !.wrote = wrote, !.ok = ~raised,
                            !.before = kvStore]
    /\ pubPc' = "done"
    /\ pubCalls' = pubCalls + 1
    /\ UNCHANGED <<kvNow, key_prefix, enable_pubsub, xPub>>

\* The commands a pipeline has queued, applied in order: items[k] is written
\* unless its serialization failed.
RECURSIVE PipelineWrites(_, _, _, _, _, _)
PipelineWrites(st, items, ttls, serFails, payload, k) ==
    IF k > Len(items) THEN st
    ELSE PipelineWrites(
             IF k \in serFails THEN st
             ELSE StoreSet(st, KeyOf(items[k]), payload, ttls[k], kvNow),
             items, ttls, serFails, payload, k + 1)

\* The history of a pipeline that has been executed.
RECURSIVE PipelineWritten(_, _, _, _, _)
PipelineWritten(w, items, serFails, payload, k) ==
    IF k > Len(items) THEN w
    ELSE PipelineWritten(
             IF k \in serFails THEN w
             ELSE [w EXCEPT ![items[k]] = Some([value |-> payload,
                                                at |-> kvNow])],
             items, serFails, payload, k + 1)

\* A fault of publish_batch: a failed pipeline leaves 'failed' as counted.
BatchFailed_prepared(n, prepFailed, execOk) == prepFailed

\* results['success'] and results['failed'] of publish_batch
BatchSuccess(n, prepFailed, execOk) == IF execOk THEN n - prepFailed ELSE 0
BatchFailed(n, prepFailed, execOk) == IF execOk THEN prepFailed ELSE n

\* The value publish_duco_network and publish_all_niko_devices return.
SuccessCount(n, prepFailed, execOk) == IF execOk THEN n - prepFailed ELSE 0

\* The body the three pipelined calls share: queue a write per item, execute
\* the pipeline (one MULTI/EXEC transaction: it takes place as a whole or
\* raises and leaves the keys alone), count.
Pipelined(op, items, ttls, serFails, payload, execOk) ==
    /\ pubPc = "idle"
    /\ pubCalls < MaxPublishes
    /\ serFails \subseteq 1..Len(items)
    /\ LET n == Len(items)
           prepFailed == Cardinality(serFails)
       IN  /\ kvStore' = IF execOk
                         THEN PipelineWrites(kvStore, items, ttls, serFails,
                                             payload, 1)
                         ELSE kvStore
           /\ pubWritten' = IF execOk
                            THEN PipelineWritten(pubWritten, items, serFails,
                                                 payload, 1)
                            ELSE pubWritten
           /\ pubCall' = [NoCall EXCEPT !.op = op, !.items = items,
                            !.payload = payload, !.serFails = serFails,
                            !.fault = IF execOk THEN "none" ELSE "store",
                            !.wrote = execOk, !.ok = execOk,
                            !.success =
                                IF op = "batch"
                                THEN BatchSuccess(n, prepFailed, execOk)
                                ELSE SuccessCount(n, prepFailed, execOk),
                            !.failed =
                                IF op = "batch"
                                THEN BatchFailed(n, prepFailed, execOk)
                                ELSE 0,
                            !.before = kvStore]
    /\ pubNotes' = <<>>
    /\ pubPc' = "done"
    /\ pubCalls' = pubCalls + 1
    /\ UNCHANGED <<kvNow, key_prefix, enable_pubsub, xPub>>

Node5   == [pattern |-> "duco_node", param |-> "5"]
Node12  == [pattern |-> "duco_node", param |-> "12"]
NikoDev == [pattern |-> "niko_device", param |-> "u1"]
NikoLoc == [pattern |-> "niko_location", param |-> "l1"]

\* Which serializations fail in a pipelined call.
SerFails == {{}, {1}, {2}}

\* publish_duco_network(nodes)
PublishDucoNetwork(nodes, serFails, payload, execOk) ==
    Pipelined("network", nodes,
              [k \in 1..Len(nodes) |-> DefaultTtl("duco_node")],
              serFails, payload, execOk)

\* publish_all_niko_devices(devices)
PublishAllNikoDevices(devices, serFails, payload, execOk) ==
    Pipelined("niko", devices, [k \in 1..Len(devices) |-> None],
              serFails, payload, execOk)

\* publish_batch(items)
PublishBatch(items, serFails, payload, execOk) ==
    Pipelined("batch", items,
              [k \in 1..Len(items) |-> DefaultTtl(items[k].pattern)],
              serFails, payload, execOk)

\* delete_device
DeleteDevice(i, deleteOk) ==
    /\ pubPc = "idle"
    /\ pubCalls < MaxPublishes
    /\ kvStore' = IF deleteOk THEN {e \in kvStore : e.key # KeyOf(i)}
                  ELSE kvStore
    /\ pubWritten' = IF deleteOk THEN [pubWritten EXCEPT ![i] = None]
                     ELSE pubWritten
    /\ pubCall' = [NoCall EXCEPT !.op = "delete", !.items = <<i>>,
                     !.fault = IF deleteOk THEN "none" ELSE "store",
                     !.ok = deleteOk, !.before = kvStore]
    /\ pubNotes' = <<>>
    /\ pubPc' = "done"
    /\ pubCalls' = pubCalls + 1
    /\ UNCHANGED <<kvNow, key_prefix, enable_pubsub, xPub>>

\* The caller goes on.
PublishReturn ==
    /\ pubPc = "done"
    /\ pubPc' = "idle"
    /\ pubCall' = NoCall
    /\ pubNotes' = <<>>
    /\ UNCHANGED <<kvStore, kvNow, key_prefix, enable_pubsub, pubCalls,
                   pubWritten, xPub>>

\* Time passes; Redis drops the keys whose lifetime is over.
KvTick ==
    /\ pubPc = "idle"
    /\ kvNow < MaxTicks * ClockStep
    /\ kvNow' = kvNow + ClockStep
    /\ kvStore' = Live(kvStore, kvNow')
    /\ UNCHANGED <<key_prefix, enable_pubsub, pubPc, pubCalls, pubCall,
                   pubNotes, pubWritten, xPub>>

PublishOne ==
    \E i \in Identities, payload \in Payloads, fault \in Faults :
        PublishDevice(i, payload, fault)

PublishNetwork ==
    \E nodes \in {<<Node5>>, <<Node5, Node12>>}, serFails \in SerFails,
       payload \in Payloads, execOk \in BOOLEAN :
        PublishDucoNetwork(nodes, serFails, payload, execOk)

PublishNiko ==
    \E serFails \in SerFails, payload \in Payloads, execOk \in BOOLEAN :
        PublishAllNikoDevices(<<NikoDev>>, serFails, payload, execOk)

PublishItems ==
    \E items \in {<<Node5, NikoDev>>, <<NikoLoc, Node12>>},
       serFails \in SerFails, payload \in Payloads, execOk \in BOOLEAN :
        PublishBatch(items, serFails, payload, execOk)

DeleteOne == \E i \in Identities, deleteOk \in BOOLEAN : DeleteDevice(i, deleteOk)

(***************************************************************************)
(* The loop of the polling service and of the collector                    *)
(***************************************************************************)
\* Both services have the same start, stop and _run_loop; the poller's cycle
\* is _scan_network / _poll_system / _poll_nodes and counts 'polls', the
\* collector's is _collect_and_store and counts 'collections'.  One service
\* is followed at a time.
Loops == {"poller", "collector"}

MaxInterval == 2

JOIN_TIMEOUT == 5

LoopIdle ==
    /\ service = "poller"
    /\ running = FALSE
    /\ interval = MaxInterval
    /\ loopPc = "none"
    /\ waitLeft = 0
    /\ loopStats = [cycles |-> 0, errors |-> 0]
    /\ stopPc = "none"
    /\ joinSecs = 0
    /\ cycleBit = 0
    /\ lateSleep = 0
    /\ lastCycle = "none"

\* start(): the service is started once by its owner.
Start ==
    /\ ~running
    /\ loopPc = "none"
    /\ running' = TRUE
    /\ loopPc' = "test"
    /\ UNCHANGED <<service, interval, waitLeft, loopStats, stopPc, joinSecs,
                   cycleBit, lateSleep, lastCycle,
                   xLoop>>

\* A fault of the loop: the flag is not looked at.
LoopGoesOn_always(flag) == TRUE

\* while self.running
LoopGoesOn(flag) == flag

\* The while test of _run_loop: another cycle, or the thread ends.
LoopTest ==
    /\ loopPc = "test"
    /\ loopPc' = IF LoopGoesOn(running) THEN "cycle" ELSE "ended"
    /\ cycleBit' = IF LoopGoesOn(running) THEN 1 - cycleBit ELSE cycleBit
    /\ UNCHANGED <<service, running, interval, waitLeft, loopStats, stopPc,
                   joinSecs, lateSleep, lastCycle,
                   xLoop>>

\* A fault of the loop: an exception ends the thread.
AfterRaise_ended == "ended"

\* Where the loop is after the except clause: at its wait phase.
AfterRaise == "wait"

\* The try block of _run_loop.  The cycle returns (having counted the
\* failures it handled itself, if any) or an exception escapes it.
CycleEnd(raised, handled) ==
    /\ loopPc = "cycle"
    /\ loopStats' =
          IF raised
          THEN [loopStats EXCEPT !.errors = Capped(@ + 1, MaxErrors)]
          ELSE [cycles |-> Capped(loopStats.cycles + 1, MaxErrors),
                errors |-> IF handled
                           THEN Capped(loopStats.errors + 1, MaxErrors)
                           ELSE loopStats.errors]
    /\ loopPc' = IF raised THEN AfterRaise ELSE "wait"
    /\ waitLeft' = interval
    /\ lastCycle' = IF raised THEN "raised" ELSE "returned"
    /\ UNCHANGED <<service, running, interval, stopPc, joinSecs, cycleBit,
                   lateSleep, xLoop>>

\* A fault of the wait: the flag is not looked at.
WaitBreaks_never(flag) == FALSE

\* if not self.running: break
WaitBreaks(flag) == ~flag

\* for _ in range(interval): if not self.running: break; time.sleep(1)
\* The loop is over, is left by break, or the thread goes to sleep.
WaitCheck ==
    /\ loopPc = "wait"
    /\ loopPc' = IF waitLeft = 0 \/ WaitBreaks(running) THEN "test"
                 ELSE "sleep"
    /\ UNCHANGED <<service, running, interval, waitLeft, loopStats, stopPc,
                   joinSecs, cycleBit, lateSleep, lastCycle,
                   xLoop>>

\* stop(): the flag is cleared and the caller joins the thread.
Stop ==
    /\ running
    /\ stopPc = "none"
    /\ running' = FALSE
    /\ stopPc' = "joining"
    /\ UNCHANGED <<service, interval, loopPc, waitLeft, loopStats, joinSecs,
                   cycleBit, lateSleep, lastCycle,
                   xLoop>>

\* self.thread.join(timeout=5) returns: the thread has ended or the timeout
\* is over.
StopReturn ==
    /\ stopPc = "joining"
    /\ loopPc = "ended" \/ joinSecs = JOIN_TIMEOUT
    /\ stopPc' = "returned"
    /\ UNCHANGED <<service, running, interval, loopPc, waitLeft, loopStats,
                   joinSecs, cycleBit, lateSleep, lastCycle,
                   xLoop>>

\* One second passes: a time.sleep(1) is over, a join in progress has waited
\* a second more (it does not wait beyond its timeout, nor once the thread
\* has ended).
Second ==
    /\ loopPc = "sleep" \/ stopPc = "joining"
    /\ stopPc = "joining" => joinSecs < JOIN_TIMEOUT /\ loopPc # "ended"
    /\ loopPc' = IF loopPc = "sleep" THEN "wait" ELSE loopPc
    /\ waitLeft' = IF loopPc = "sleep" THEN waitLeft - 1 ELSE waitLeft
    /\ joinSecs' = IF stopPc = "joining" THEN joinSecs + 1 ELSE joinSecs
    /\ lateSleep' = IF loopPc = "sleep" /\ ~running
                    THEN Capped(lateSleep + 1, MaxInterval) ELSE lateSleep
    /\ UNCHANGED <<service, running, interval, loopStats, stopPc, cycleBit,
                   lastCycle,
                   xLoop>>

(***************************************************************************)
(* set_ventilation_mode and identify_node of the polling service           *)
(***************************************************************************)
\* VentilationMode values used: AUTO, MANUAL_1, NOT_HOME, MANUAL_3_X3.
VentilationModes == {0, 4, 7, 16}

\* How a call of the Modbus client ends: it returns True, returns False, or
\* raises.
Outcomes == {"ok", "fail", "raise"}

NoOp ==
    [op |-> "none", arg |-> 0, result |-> FALSE, raised |-> FALSE,
     trace |-> <<>>]

OpsIdle ==
    /\ opPc = "idle"
    /\ opCall = NoOp

\* poll_now: nothing is polled unless the service is running.
PollNow(flag) == IF flag THEN <<"poll_system", "poll_nodes">> ELSE <<>>

\* DucoPollingService.set_ventilation_mode
SetVentilationMode(mode, write) ==
    /\ opPc = "idle"
    /\ opCall' = [op |-> "set_ventilation_mode", arg |-> mode,
                  result |-> write = "ok", raised |-> FALSE,
                  trace |-> IF write = "ok"
                            THEN <<"write", "sleep">> \o PollNow(running)
                            ELSE <<"write">>]
    /\ opPc' = "done"
    /\ UNCHANGED <<varsLoop, xOps>>

\* DucoPollingService.identify_node: the turn-off write is made when the
\* turn-on write returned True and the hold was not interrupted.
IdentifyNode(node, on, holdRaises, off) ==
    /\ opPc = "idle"
    /\ opCall' = [op |-> "identify_node", arg |-> node,
                  result |-> on = "ok" /\ ~holdRaises /\ off # "raise",
                  raised |-> FALSE,
                  trace |-> IF on # "ok" THEN <<"on">>
                            ELSE IF holdRaises THEN <<"on", "hold">>
                            ELSE <<"on", "hold", "off">>]
    /\ opPc' = "done"
    /\ UNCHANGED <<varsLoop, xOps>>

\* The caller goes on.
OpReturn ==
    /\ opPc = "done"
    /\ opPc' = "idle"
    /\ opCall' = NoOp
    /\ UNCHANGED <<varsLoop, xOps>>

\* start() and stop() of the service, as seen by the callers of its
\* operations.
OpsStart == Start /\ UNCHANGED varsOps
OpsStop  == Stop /\ UNCHANGED varsOps

(***************************************************************************)
(* The Niko callback service                                               *)
(***************************************************************************)
NikoUuids == {"u1", "u2"}

NikoKey(u) == BuildKey(key_prefix, "niko_device", u)

NeverHandled == [u \in NikoUuids |-> "none"]

NikoIdle ==
    /\ nikoRunning = FALSE
    /\ devices_cache = {}
    /\ nikoStats = [device_updates |-> 0, errors |-> 0]
    /\ nikoLast = NeverHandled
    /\ nikoDeleted = [u \in NikoUuids |-> FALSE]

\* A fault of the handler: a removed device stays in the cache.
CacheRemove_keep(cache, u) == cache

\* if device_uuid in self.devices_cache: del self.devices_cache[device_uuid]
CacheRemove(cache, u) == cache \ {u}

\* The state the handler works on: cache, store, statistics and history.
NikoState ==
    [cache |-> devices_cache, store |-> kvStore, stats |-> nikoStats,
     last |-> nikoLast, deleted |-> nikoDeleted]

\* One device of a 'devices.removed' event: out of the cache, delete_device.
RemoveDevice(st, u, redisOk) ==
    [st EXCEPT !.cache = CacheRemove(@, u),
               !.store = IF redisOk THEN {e \in @ : e.key # NikoKey(u)}
                         ELSE @,
               !.last = [@ EXCEPT ![u] = "removed"],
               !.deleted = [@ EXCEPT ![u] = redisOk]]

\* One device of any other event: create_device, into the cache,
\* publish_niko_device.  When create_device raises, the error is counted and
\* the device is left as it was.
UpsertDevice(st, u, payload, convOk, redisOk) ==
    IF ~convOk
    THEN [st EXCEPT !.stats.errors = Capped(@ + 1, MaxErrors)]
    ELSE [st EXCEPT !.cache = @ \cup {u},
                    !.store = IF redisOk
                              THEN StoreSet(@, NikoKey(u), payload, None,
                                            kvNow)
                              ELSE @,
                    !.stats.device_updates =
                        IF redisOk THEN Capped(@ + 1, MaxUpdates) ELSE @,
                    !.last = [@ EXCEPT ![u] = "upsert"]]

\* for device_data in devices
RECURSIVE HandleDevices(_, _, _, _, _, _, _)
HandleDevices(st, method, devices, payload, convFails, redisFails, k) ==
    IF k > Len(devices) THEN st
    ELSE HandleDevices(
             IF method = "devices.removed"
             THEN RemoveDevice(st, devices[k], k \notin redisFails)
             ELSE UpsertDevice(st, devices[k], payload, k \notin convFails,
                               k \notin redisFails),
             method, devices, payload, convFails, redisFails, k + 1)

\* The devices list_devices returned, converted, put into the cache and
\* handed together to publish_all_niko_devices.
RECURSIVE SyncDevices(_, _, _, _)
SyncDevices(st, devices, convFails, k) ==
    IF k > Len(devices) THEN st
    ELSE SyncDevices(
             IF k \in convFails THEN st
             ELSE [st EXCEPT !.cache = @ \cup {devices[k]},
                             !.last = [@ EXCEPT ![devices[k]] = "sync"]],
             devices, convFails, k + 1)

DeviceLists == {<<>>, <<"u1">>, <<"u2">>, <<"u1", "u2">>, <<"u2", "u1">>}

\* start(): the callbacks are registered and the initial sync is made.
NikoStart(devices, convFails, payload, execOk) ==
    /\ ~nikoRunning
    /\ convFails \subseteq DOMAIN devices
    /\ nikoRunning' = TRUE
    /\ LET st == SyncDevices(NikoState, devices, convFails, 1)
           converted == SelectSeq(devices, LAMBDA u : u \in st.cache
                                     /\ st.last[u] = "sync")
       IN  /\ devices_cache' = st.cache
           /\ nikoLast' = st.last
           /\ kvStore' = IF execOk
                         THEN PipelineWrites(kvStore,
                                  [k \in DOMAIN converted |->
                                      [pattern |-> "niko_device",
                                       param |-> converted[k]]],
                                  [k \in DOMAIN converted |-> None],
                                  {}, payload, 1)
                         ELSE kvStore
    /\ UNCHANGED <<nikoStats, nikoDeleted, xNiko>>

\* stop()
NikoStop ==
    /\ nikoRunning
    /\ nikoRunning' = FALSE
    /\ UNCHANGED <<devices_cache, nikoStats, nikoLast, nikoDeleted, kvStore,
                   xNiko>>

\* _on_device_event: ignored unless the service is running.
OnDeviceEvent(method, devices, payload, convFails, redisFails) ==
    /\ convFails \subseteq DOMAIN devices
    /\ redisFails \subseteq DOMAIN devices
    /\ LET st == IF nikoRunning
                 THEN HandleDevices(NikoState, method, devices, payload,
                                    convFails, redisFails, 1)
                 ELSE NikoState
       IN  /\ devices_cache' = st.cache
           /\ kvStore' = st.store
           /\ nikoStats' = st.stats
           /\ nikoLast' = st.last
           /\ nikoDeleted' = st.deleted
    /\ UNCHANGED <<nikoRunning, xNiko>>

(***************************************************************************)
(* identify_node and set_node_ventilation_mode of the Modbus client        *)
(***************************************************************************)
\* _get_node_capabilities: the capabilities of the node's type, or None when
\* the type cannot be read or has no entry in NODE_CAPABILITIES.
GetNodeCapabilities(typeRead) ==
    IF IsNone(typeRead) THEN None
    ELSE IF HasCapabilities(ToNodeType(Val(typeRead)))
         THEN Some(NODE_CAPABILITIES[ToNodeType(Val(typeRead))])
         ELSE None

\* The type registers read by the node operations: those of the node poll,
\* and a box sensor, which can set its mode but cannot identify.
NodeOpTypes == TypeReads \cup {Some(35)}

\* DucoModbusClient.identify_node(node, enable, force)
ClientIdentifyNode(node, typeRead, enable, force, writeOk) ==
    /\ opPc = "idle"
    /\ LET caps == GetNodeCapabilities(typeRead)
           rejected == ~force /\ ~IsNone(caps) /\ "identify" \notin Val(caps)
       IN  opCall' = [op |-> "client.identify_node",
                      arg |-> [node |-> node, caps |-> caps, force |-> force,
                               value |-> IF enable THEN 1 ELSE 0],
                      result |-> ~rejected /\ writeOk,
                      raised |-> FALSE,
                      trace |-> IF rejected THEN <<>> ELSE <<"write">>]
    /\ opPc' = "done"
    /\ UNCHANGED <<varsLoop, xOps>>

\* DucoModbusClient.set_node_ventilation_mode(node, mode): a node whose
\* capabilities exclude the mode setting makes the call raise ValueError.
SetNodeVentilationMode(node, typeRead, mode, writeOk) ==
    /\ opPc = "idle"
    /\ LET caps == GetNodeCapabilities(typeRead)
           rejected == ~IsNone(caps) /\ "set_mode" \notin Val(caps)
       IN  opCall' = [op |-> "client.set_node_ventilation_mode",
                      arg |-> [node |-> node, caps |-> caps, force |-> FALSE,
                               value |-> mode],
                      result |-> ~rejected /\ writeOk,
                      raised |-> rejected,
                      trace |-> IF rejected THEN <<>> ELSE <<"write">>]
    /\ opPc' = "done"
    /\ UNCHANGED <<varsLoop, xOps>>

(***************************************************************************)
(* NikoDataConverter.create_device                                         *)
(***************************************************************************)
\* The entries of the DEVICE_MODEL_MAP literal, in the order written.
DEVICE_MODEL_MAP_items ==
    <<<<"dimmer", "DimmerAction">>, <<"fan", "FanAction">>,
      <<"light", "RelayAction">>, <<"socket", "RelayAction">>,
      <<"switched-fan", "RelayAction">>,
      <<"switched-generic", "RelayAction">>,
      <<"rolldownshutter", "RollerShutterAction">>,
      <<"sunblind", "MotorAction">>, <<"gate", "GateAction">>,
      <<"venetianblind", "VenetianBlindAction">>,
      <<"reymers", "MotorAction">>, <<"velux", "MotorAction">>,
      <<"accesscontrol", "AccessControlAction">>,
      <<"bellbutton", "BellButtonAction">>,
      <<"garagedoor", "GarageDoorAction">>, <<"alarms", "AlarmAction">>,
      <<"comfort", "MoodAction">>, <<"alloff", "AllOffAction">>,
      <<"generic", "FreeStartStopAction">>,
      <<"overallcomfort", "HouseModeAction">>, <<"pir", "PIRAction">>,
      <<"simulation", "PresenceSimulationAction">>,
      <<"playerstatus", "PlayerStatusAction">>,
      <<"condition", "ConditionalAction">>, <<"peakmode", "PeakModeAction">>,
      <<"solarmode", "SolarModeAction">>,
      <<"timeschedule", "TimeScheduleAction">>,
      <<"thermostat", "Thermostat">>, <<"hvacthermostat", "HVACThermostat">>,
      <<"touchswitch", "TouchSwitchThermostat">>,
      <<"virtual", "VirtualThermostat">>, <<"thermoswitch", "ThermoSwitch">>,
      <<"thermoswitchx1", "ThermoSwitch">>,
      <<"thermoswitchx1feedback", "ThermoSwitch">>,
      <<"thermoswitchx2feedback", "ThermoSwitch">>,
      <<"thermoswitchx3feedback", "ThermoSwitch">>,
      <<"thermoswitchx4feedback", "ThermoSwitch">>,
      <<"thermoventilationcontrollerfeedback", "ThermoSwitch">>,
      <<"flag", "VirtualFlag">>, <<"battery-clamp", "BatteryMeteringClamp">>,
      <<"electricity-clamp", "ElectricityMeteringModule">>,
      <<"electricity-pulse", "PulseMeteringModule">>,
      <<"gas", "PulseMeteringModule">>, <<"water", "PulseMeteringModule">>,
      <<"naso", "ZigBeeSmartPlug">>, <<"generic", "GenericZigBeeSmartPlug">>,
      <<"energyhome", "EnergyHome">>,
      <<"robinsip", "OutdoorVideoDoorStation">>,
      <<"audiocontrol", "AudioControlAction">>, <<"sonos", "SonosSpeaker">>,
      <<"bose", "BoseSpeaker">>>>

\* A dict literal keeps, for a key written twice, the last value.
DEVICE_MODEL_MAP ==
    [k \in {DEVICE_MODEL_MAP_items[i][1] : i \in DOMAIN DEVICE_MODEL_MAP_items}
       |-> LET last == CHOOSE i \in DOMAIN DEVICE_MODEL_MAP_items :
                          /\ DEVICE_MODEL_MAP_items[i][1] = k
                          /\ \A j \in DOMAIN DEVICE_MODEL_MAP_items :
                                DEVICE_MODEL_MAP_items[j][1] = k => j <= i
           IN  DEVICE_MODEL_MAP_items[last][2]]

\* A Model string is kept as its lower-case text and whether the string as
\* received has upper-case letters ("Dimmer").
ModelTexts == {"dimmer", "light", "generic", "thermostat", "hvacthermostat",
               "smart-thermostat", "powermeter", "wallplug", "airsensor",
               "mystery", ""}

\* The words of the fallback tests that occur in a text.
WordsIn(text) ==
    CASE text \in {"thermostat", "hvacthermostat", "smart-thermostat"}
             -> {"thermostat"}
      [] text = "powermeter" -> {"meter"}
      [] text = "wallplug"   -> {"plug"}
      [] text = "airsensor"  -> {"sensor"}
      [] OTHER               -> {}

\* A fault of create_device: the Model is used as received.
Lower_asis(str) == str

\* str.lower()
Lower(str) == [str EXCEPT !.cased = FALSE]

\* "word in model" and model == key, which are case sensitive.
Contains(str, word) == ~str.cased /\ word \in WordsIn(str.text)
IsKey(str) == ~str.cased /\ str.text \in DOMAIN DEVICE_MODEL_MAP

\* The class create_device chooses.
DeviceClass(model, device_type) ==
    IF IsKey(model) THEN DEVICE_MODEL_MAP[model.text]
    ELSE IF Contains(model, "thermostat")
            \/ device_type \in {"hvac", "thermostat"} THEN "Thermostat"
    ELSE IF Contains(model, "meter") \/ device_type = "centralmeter"
         THEN "ElectricityMeteringModule"
    ELSE IF Contains(model, "plug") \/ device_type = "smartplug"
         THEN "SmartPlug"
    ELSE IF Contains(model, "sensor") \/ device_type = "multisensor"
         THEN "ThermoSwitch"
    ELSE "BaseActionDevice"

\* safe_convert(value, int): None for what int(float(value)) rejects.
SafeConvertInt(value) ==
    IF value.kind \in {"num", "str"} THEN Some(value.v) ELSE None

\* create_device: the fields of the device that the class, the Status and the
\* Brightness decide.
CreateDeviceOf(data) ==
    LET model == Lower(data.Model)
        class == DeviceClass(model, data.Type)
    IN  [class |-> class, model |-> model.text, device_type |-> data.Type,
         uuid |-> data.Uuid,
         status |-> data.Status,
         brightness |-> IF class = "DimmerAction" /\ ~IsNone(data.Brightness)
                        THEN SafeConvertInt(Val(data.Brightness))
                        ELSE None]

DeviceTypes == {"action", "thermostat", "hvac", "centralmeter", "smartplug",
                "multisensor", ""}

\* The Brightness property: absent, or a number, a numeric string, a text.
BrightnessValues ==
    {None, Some(NumString(75)), Some(Number(40)), Some(NumString(0)),
     Some(TextString), Some(BlankString)}

ApiRecords ==
    [Model : [text : ModelTexts, cased : BOOLEAN] \
                 {[text |-> "", cased |-> TRUE]},
     Type : DeviceTypes, Uuid : {"u1"},
     Status : {None, Some("On"), Some("Off")},
     Brightness : BrightnessValues]

ConvIdle ==
    /\ api_data = [Model |-> [text |-> "", cased |-> FALSE], Type |-> "",
                   Uuid |-> "u1", Status |-> None, Brightness |-> None]
    /\ new_device = None

CreateDevice ==
    /\ IsNone(new_device)
    /\ new_device' = Some(CreateDeviceOf(api_data))
    /\ UNCHANGED <<api_data, xConv>>

(***************************************************************************)
(* One cycle of the collector: _collect_and_store                          *)
(***************************************************************************)
MaxStamp == 3

CycleIdle ==
    /\ utcNow = 0
    /\ cyclePc = "idle"
    /\ cycleBatch = None
    /\ cycleStats = [measurements_stored |-> 0, errors |-> 0]
    /\ cycleBefore = {}

\* A fault of the reads: a key that is read is taken out of the store.
AfterRead_consume(st, keys) == {e \in st : e.key \notin keys}

\* The store after redis_client.keys(pattern) and redis_client.get(key).
AfterRead(st, keys) == st

\* The identities whose records a get_* call returns: those of the pattern
\* that Redis has.
Stored(st, pattern) ==
    {i \in Identities :
        i.pattern = pattern /\ StoreGet(Live(st, kvNow), KeyOf(i)) # {}}

\* The payload "v1" is a record with one valid measurement, "v2" one with
\* none.
HasMeasurement(st, i) == StoreGet(st, KeyOf(i)) = {"v1"}

\* The points of the records of a set of identities, stamped with t.
RECURSIVE PointsAt(_, _, _)
PointsAt(st, ids, t) ==
    IF ids = {} THEN <<>>
    ELSE LET i == CHOOSE x \in ids : TRUE
         IN  (IF HasMeasurement(st, i)
              THEN <<[device_id |-> i.param, pattern |-> i.pattern,
                      timestamp |-> t]>>
              ELSE <<>>) \o PointsAt(st, ids \ {i}, t)

\* _collect_niko_measurements: timestamp = now, then the devices are read.
CollectNikoMeasurements(st, t, readOk) ==
    IF readOk THEN PointsAt(st, Stored(st, "niko_device"), t) ELSE <<>>

\* _collect_duco_measurements: timestamp = now, then the DucoBox and the
\* nodes are read; a read that raises ends the collection with the points
\* made so far.
CollectDucoAt(st, t, boxOk, nodesOk) ==
    IF ~boxOk THEN <<>>
    ELSE PointsAt(st, Stored(st, "ducobox_system"), t)
            \o (IF nodesOk THEN PointsAt(st, Stored(st, "duco_node"), t)
                ELSE <<>>)

\* _collect_and_store.  The two collections read the clock one after the
\* other; lag is the time that passed between the two readings.
CollectAndStore(lag, nikoOk, boxOk, nodesOk, insertOk) ==
    /\ cyclePc = "idle"
    /\ utcNow + lag < MaxStamp
    /\ LET measurements ==
               CollectNikoMeasurements(kvStore, utcNow, nikoOk)
                 \o CollectDucoAt(kvStore, utcNow + lag, boxOk, nodesOk)
           keysRead == {KeyOf(i) : i \in Stored(kvStore, "niko_device")
                                     \cup Stored(kvStore, "ducobox_system")
                                     \cup Stored(kvStore, "duco_node")}
       IN  /\ cycleBatch' = IF measurements # <<>> THEN Some(measurements)
                            ELSE None
           /\ cycleStats' =
                 IF measurements = <<>> THEN cycleStats
                 ELSE IF insertOk
                 THEN [cycleStats EXCEPT
                         !.measurements_stored =
                             Capped(@ + Len(measurements), MaxUpdates)]
                 ELSE [cycleStats EXCEPT
                         !.errors = Capped(@ + 1, MaxErrors)]
           /\ kvStore' = AfterRead(kvStore, keysRead)
    /\ cycleBefore' = kvStore
    /\ utcNow' = utcNow + lag + 1
    /\ cyclePc' = "done"
    /\ UNCHANGED xCycle

\* The loop goes on to its wait.
CycleReturn ==
    /\ cyclePc = "done"
    /\ cyclePc' = "idle"
    /\ cycleBatch' = None
    /\ cycleBefore' = {}
    /\ UNCHANGED <<utcNow, cycleStats, kvStore, xCycle>>

\* The number of rows in the table.
RECURSIVE TotalRows(_, _)
TotalRows(rows, ps) ==
    IF ps = {} THEN 0
    ELSE LET p == CHOOSE x \in ps : TRUE
         IN  rows[p] + TotalRows(rows, ps \ {p})

\* _collect_and_store, lines 691-697: the collector takes the result of
\* insert_measurements; on success it adds the length of the batch to
\* measurements_stored, otherwise it counts an error.
StoreResult ==
    /\ insPc = "done"
    /\ cycleStats' =
          IF insResult = Some(TRUE)
          THEN [cycleStats EXCEPT
                  !.measurements_stored =
                      Capped(@ + Len(insBatch), MaxUpdates)]
          ELSE [cycleStats EXCEPT !.errors = Capped(@ + 1, MaxErrors)]
    /\ insPc' = "idle"
    /\ insBatch' = <<>>
    /\ insRetry' = 0
    /\ insResult' = None
    /\ insEntry' = [rows |-> NoRows, conn |-> FALSE]
    /\ insLog' = NoLog
    /\ UNCHANGED <<dbRows, dbConn>>
    /\ UNCHANGED <<varsTemp, varsWrite, varsDisc, varsPoll, varsCollect,
                   varsZone, varsPub, varsLoop, varsOps, varsNiko, varsConv,
                   utcNow, cyclePc, cycleBatch, cycleBefore, varsTick,
                   varsSync, varsClient, varsThreads>>

\* What the publishers may have put into the store before a cycle.
RECURSIVE StoreOf(_, _)
StoreOf(ids, payloadOf) ==
    IF ids = {} THEN {}
    ELSE LET i == CHOOSE x \in ids : TRUE
         IN  StoreSet(StoreOf(ids \ {i}, payloadOf), KeyOf(i), payloadOf[i],
                      DefaultTtl(i.pattern), 0)

(***************************************************************************)
(* One iteration of the polling loop: the rescan test, the network scan    *)
(* and the system poll                                                     *)
(***************************************************************************)
network_scan_interval == 300

\* The longest time followed.
MaxWall == 602

\* The time from one iteration to the next: the wait of poll_interval
\* seconds and the time the polls took.
PollIntervals == {150, 300, 301}

\* get_system_info, get_temperatures, and the two filter reads of
\* _poll_system: the keys of the values read.
SystemInfoKeys ==
    {"api_version", "system_type", "ventilation_status", "ventilation_mode",
     "remaining_write_actions", "humidity", "co2", "air_quality_rh",
     "air_quality_co2"}

TemperatureKeys ==
    {"outdoor_air", "supply_air", "extract_air", "exhaust_air", "outdoor"}

FilterKeys == {"filter_remaining", "filter_status"}

SystemReads == SystemInfoKeys \cup TemperatureKeys \cup FilterKeys

\* A fault of get_system_info: the values that are None stay in the
\* dictionary.
GetSystemInfo_unfiltered(ok) == SystemInfoKeys

\* get_system_info: the dictionary of the reads that returned a value; ok
\* are the reads that return one (a register that is read, and a code the
\* enumeration has).
GetSystemInfo(ok) == ok \cap SystemInfoKeys

\* get_temperatures
GetTemperatures(ok) == ok \cap TemperatureKeys

\* The field of DucoBoxSystem a value goes to; system_type and outdoor go
\* to none.
FieldOf(key) ==
    CASE key = "ventilation_status" -> "status"
      [] key = "humidity"           -> "humidity_level"
      [] key = "co2"                -> "co2_level"
      [] key = "filter_remaining"   -> "remaining_filter_time"
      [] key = "outdoor_air"        -> "temperature_oda"
      [] key = "supply_air"         -> "temperature_sup"
      [] key = "extract_air"        -> "temperature_eta"
      [] key = "exhaust_air"        -> "temperature_eha"
      [] OTHER                      -> key

\* The fields of the DucoBoxSystem that are not None.
DucoBoxSystem(info, temps, filter) ==
    {"device_id", "node_type"}
        \cup {FieldOf(k) : k \in (info \cup temps \cup filter)
                                   \ {"system_type", "outdoor"}}

\* _poll_system: the reads made, the record handed to publish_ducobox, and
\* whether system_updates is counted.
PollSystemOf(ok, pubOk) ==
    LET system_info == GetSystemInfo(ok)
    IN  IF system_info = {}
        THEN [performed |-> SystemInfoKeys, handed |-> None,
              success |-> FALSE]
        ELSE [performed |-> SystemReads,
              handed    |-> Some(DucoBoxSystem(system_info,
                                               GetTemperatures(ok),
                                               ok \cap FilterKeys)),
              success   |-> pubOk]

\* A fault of the test: a scan as soon as the interval has passed.
ShouldRescan_atleast(last, t) ==
    IsNone(last) \/ t - Val(last) >= network_scan_interval

\* _run_loop, lines 89-92: should_rescan
ShouldRescan(last, t) ==
    IsNone(last) \/ t - Val(last) > network_scan_interval

NoTick ==
    [op |-> "none", rescan |-> FALSE, before |-> <<>>, lastBefore |-> None,
     found |-> None, ok |-> {}, performed |-> {}, handed |-> None,
     regs |-> None]

TickIdle ==
    /\ wallNow = 0
    /\ last_network_scan = None
    /\ tickPc = "tick"
    /\ tickStats = [polls |-> 0, system_updates |-> 0]
    /\ tickLog = NoTick

\* _run_loop, lines 88-95, with _scan_network: the scan, when it is due,
\* replaces active_nodes with the list get_active_nodes returns for the
\* nodes S that are present.
TickScan(S) ==
    /\ tickPc = "tick"
    /\ LET due == ShouldRescan(last_network_scan, wallNow)
       IN  /\ active_nodes' = IF due THEN ScanResults[S] ELSE active_nodes
           /\ last_network_scan' = IF due THEN Some(wallNow)
                                   ELSE last_network_scan
           /\ tickLog' = [NoTick EXCEPT
                            !.op = "tick",
                            !.rescan = due,
                            !.before = active_nodes,
                            !.lastBefore = last_network_scan,
                            !.found = IF due THEN Some(ScanResults[S])
                                      ELSE None]
    /\ tickPc' = "system"
    /\ UNCHANGED <<wallNow, tickStats>>
    /\ UNCHANGED xTick

\* The presence registers when every read of them fails.
AllFailedRegs == [r \in PresenceRegs |-> None]

\* A fault of the scan: one in which every read failed changes nothing.
TickScanRegs_keep(regs) ==
    /\ tickPc = "tick"
    /\ LET due == ShouldRescan(last_network_scan, wallNow)
           got == due /\ regs # AllFailedRegs
       IN  /\ active_nodes' = IF got THEN GetActiveNodes(regs)
                              ELSE active_nodes
           /\ last_network_scan' = IF got THEN Some(wallNow)
                                   ELSE last_network_scan
           /\ tickLog' = [NoTick EXCEPT
                            !.op = "tick",
                            !.rescan = due,
                            !.before = active_nodes,
                            !.lastBefore = last_network_scan,
                            !.found = IF due THEN Some(GetActiveNodes(regs))
                                      ELSE None,
                            !.regs = IF due THEN Some(regs) ELSE None]
    /\ tickPc' = "system"
    /\ UNCHANGED <<wallNow, tickStats>>
    /\ UNCHANGED xTick

\* _run_loop, lines 88-95, with _scan_network, for what the reads of the
\* nine presence registers return: get_active_nodes makes its list from the
\* reads that returned a value, and the list replaces active_nodes.
TickScanRegs(regs) ==
    /\ tickPc = "tick"
    /\ LET due == ShouldRescan(last_network_scan, wallNow)
       IN  /\ active_nodes' = IF due THEN GetActiveNodes(regs)
                              ELSE active_nodes
           /\ last_network_scan' = IF due THEN Some(wallNow)
                                   ELSE last_network_scan
           /\ tickLog' = [NoTick EXCEPT
                            !.op = "tick",
                            !.rescan = due,
                            !.before = active_nodes,
                            !.lastBefore = last_network_scan,
                            !.found = IF due THEN Some(GetActiveNodes(regs))
                                      ELSE None,
                            !.regs = IF due THEN Some(regs) ELSE None]
    /\ tickPc' = "system"
    /\ UNCHANGED <<wallNow, tickStats>>
    /\ UNCHANGED xTick

\* _run_loop, line 98: _poll_system
PollSystem(ok, pubOk) ==
    /\ tickPc = "system"
    /\ LET r == PollSystemOf(ok, pubOk)
       IN  /\ tickLog' = [tickLog EXCEPT !.ok = ok,
                                         !.performed = r.performed,
                                         !.handed = r.handed]
           /\ tickStats' =
                 IF r.success
                 THEN [tickStats EXCEPT
                         !.system_updates = Capped(@ + 1, MaxUpdates)]
                 ELSE tickStats
    /\ tickPc' = "nodes"
    /\ UNCHANGED <<wallNow, last_network_scan, active_nodes>>
    /\ UNCHANGED xTick

\* _run_loop, lines 99-116: _poll_nodes (followed on its own by PollNodesStart
\* to PollReturn) leaves active_nodes and last_network_scan alone; polls is
\* counted, and the loop waits poll_interval seconds.
TickWait(d) ==
    /\ tickPc = "nodes"
    /\ wallNow + d <= MaxWall
    /\ wallNow' = wallNow + d
    /\ tickStats' = [tickStats EXCEPT !.polls = Capped(@ + 1, MaxUpdates)]
    /\ tickLog' = NoTick
    /\ tickPc' = "tick"
    /\ UNCHANGED <<last_network_scan, active_nodes>>
    /\ UNCHANGED xTick

\* poll_now of a running service, called while the loop waits: the system
\* poll (and the node poll), without the rescan test.
ManualPoll(ok, pubOk) ==
    /\ tickPc = "tick"
    /\ LET r == PollSystemOf(ok, pubOk)
       IN  /\ tickLog' = [NoTick EXCEPT
                            !.op = "poll_now",
                            !.before = active_nodes,
                            !.lastBefore = last_network_scan,
                            !.ok = ok,
                            !.performed = r.performed,
                            !.handed = r.handed]
           /\ tickStats' =
                 IF r.success
                 THEN [tickStats EXCEPT
                         !.system_updates = Capped(@ + 1, MaxUpdates)]
                 ELSE tickStats
    /\ tickPc' = "manual"
    /\ UNCHANGED <<wallNow, last_network_scan, active_nodes>>
    /\ UNCHANGED xTick

\* poll_now returns.
ManualReturn ==
    /\ tickPc = "manual"
    /\ tickPc' = "tick"
    /\ tickLog' = NoTick
    /\ UNCHANGED <<wallNow, last_network_scan, active_nodes, tickStats>>
    /\ UNCHANGED xTick

\* The outcomes of the system reads that are followed: every read of a group
\* returns a value, none does, or one does.
InfoOutcomes == {SystemInfoKeys, {}} \cup {{k} : k \in SystemInfoKeys}

TemperatureOutcomes == {TemperatureKeys, {}, {"supply_air"}, {"outdoor"}}

FilterOutcomes == {FilterKeys, {}} \cup {{k} : k \in FilterKeys}

SystemOutcomes ==
    {i \cup t \cup f : i \in InfoOutcomes, t \in TemperatureOutcomes,
                       f \in FilterOutcomes}

(***************************************************************************)
(* The Niko callback service step by step: start() with its initial sync,  *)
(* and the callbacks the transport calls on its own thread                 *)
(***************************************************************************)
\* The state of a device in a record of the API; "none": no record.
DeviceStates == {"none"} \cup Payloads

NoEntry == [uuid |-> "", state |-> "none", published |-> FALSE,
            counted |-> FALSE, during |-> FALSE]

NoMisc == [kind |-> "none", counted |-> FALSE]

SyncIdle ==
    /\ cachedState = [u \in NikoUuids |-> "none"]
    /\ syncPc = "idle"
    /\ devices_data = [u \in NikoUuids |-> "none"]
    /\ evPc = "idle"
    /\ evDevice = NoEntry
    /\ evLog = [u \in NikoUuids |-> NoEntry]
    /\ miscEvent = NoMisc

\* The UUIDs devices_cache holds.
CachedUuids(cache) == {u \in NikoUuids : cache[u] # "none"}

\* start(), lines 62-74: running is set and the callbacks are registered.
StartBegin ==
    /\ ~nikoRunning
    /\ syncPc \in {"idle", "done"}
    /\ nikoRunning' = TRUE
    /\ syncPc' = "registered"
    /\ UNCHANGED <<cachedState, devices_data, evPc, evDevice, evLog, miscEvent,
                   devices_cache, nikoStats, kvStore>>
    /\ UNCHANGED xSync

\* _initial_sync, line 97: list_devices returns the state of each device.
SyncList(data) ==
    /\ syncPc = "registered"
    /\ devices_data' = data
    /\ syncPc' = "listed"
    /\ UNCHANGED <<cachedState, evPc, evDevice, evLog, miscEvent, nikoRunning,
                   devices_cache, nikoStats, kvStore>>
    /\ UNCHANGED xSync

\* _initial_sync, lines 100-107: every device listed is converted and put
\* into the cache.
SyncCache ==
    /\ syncPc = "listed"
    /\ cachedState' = [u \in NikoUuids |->
                         IF devices_data[u] # "none" THEN devices_data[u]
                         ELSE cachedState[u]]
    /\ devices_cache' = CachedUuids(cachedState')
    /\ syncPc' = "cached"
    /\ UNCHANGED <<devices_data, evPc, evDevice, evLog, miscEvent, nikoRunning,
                   nikoStats, kvStore>>
    /\ UNCHANGED xSync

\* The store after the pipeline of publish_all_niko_devices has written the
\* devices of `us` in the states listed.
RECURSIVE SyncStore(_, _, _)
SyncStore(st, us, data) ==
    IF us = {} THEN st
    ELSE LET u == CHOOSE x \in us : TRUE
         IN  SyncStore(StoreSet(st, NikoKey(u), data[u], None, kvNow),
                       us \ {u}, data)

\* _initial_sync, lines 109-111: publish_all_niko_devices(device_objects).
SyncPublish(execOk) ==
    /\ syncPc = "cached"
    /\ kvStore' = IF execOk
                  THEN SyncStore(kvStore, CachedUuids(devices_data),
                                 devices_data)
                  ELSE kvStore
    /\ syncPc' = "done"
    /\ devices_data' = [u \in NikoUuids |-> "none"]
    /\ UNCHANGED <<cachedState, evPc, evDevice, evLog, miscEvent, nikoRunning,
                   devices_cache, nikoStats>>
    /\ UNCHANGED xSync

\* _on_device_event for an entry of a 'devices.changed' or 'devices.added'
\* event, lines 165-167: the device is converted and put into the cache.
EventCache(u, state) ==
    /\ evPc = "idle"
    /\ nikoRunning
    /\ cachedState' = [cachedState EXCEPT ![u] = state]
    /\ devices_cache' = CachedUuids(cachedState')
    /\ evDevice' = [NoEntry EXCEPT !.uuid = u, !.state = state,
                                   !.during = syncPc \in {"listed", "cached"}]
    /\ evPc' = "cached"
    /\ UNCHANGED <<syncPc, devices_data, evLog, miscEvent, nikoRunning,
                   nikoStats, kvStore>>
    /\ UNCHANGED xSync

\* Lines 169-185: publish_niko_device.  The SET fails, or the SET is made and
\* the notification fails, or both are made; only then is the result True.
EventPublish(outcome) ==
    /\ evPc = "cached"
    /\ kvStore' = IF outcome = "set fails" THEN kvStore
                  ELSE StoreSet(kvStore, NikoKey(evDevice.uuid),
                                evDevice.state, None, kvNow)
    /\ nikoStats' = IF outcome = "ok"
                    THEN [nikoStats EXCEPT
                            !.device_updates = Capped(@ + 1, MaxUpdates)]
                    ELSE nikoStats
    /\ evDevice' = [evDevice EXCEPT !.published = outcome # "set fails",
                                    !.counted = outcome = "ok"]
    /\ evLog' = [evLog EXCEPT ![evDevice.uuid] = evDevice']
    /\ evPc' = "handled"
    /\ UNCHANGED <<cachedState, syncPc, devices_data, miscEvent, nikoRunning,
                   devices_cache>>
    /\ UNCHANGED xSync

\* The handler returns.
EventReturn ==
    /\ evPc = "handled"
    /\ evPc' = "idle"
    /\ evDevice' = NoEntry
    /\ UNCHANGED <<cachedState, syncPc, devices_data, evLog, miscEvent,
                   nikoRunning, devices_cache, nikoStats, kvStore>>
    /\ UNCHANGED xSync

\* _on_notification_event: the notifications are logged.
OnNotificationEvent(method, count) ==
    /\ evPc = "idle"
    /\ miscEvent' = IF nikoRunning
                    THEN [kind |-> "notification", counted |-> FALSE]
                    ELSE miscEvent
    /\ UNCHANGED <<cachedState, syncPc, devices_data, evPc, evDevice, evLog,
                   nikoRunning, devices_cache, nikoStats, kvStore>>
    /\ UNCHANGED xSync

\* _on_system_event: 'time.published' and 'systeminfo.published' are logged.
OnSystemEvent(method) ==
    /\ evPc = "idle"
    /\ miscEvent' = IF nikoRunning
                    THEN [kind |-> method, counted |-> FALSE]
                    ELSE miscEvent
    /\ UNCHANGED <<cachedState, syncPc, devices_data, evPc, evDevice, evLog,
                   nikoRunning, devices_cache, nikoStats, kvStore>>
    /\ UNCHANGED xSync

\* _on_error_event: logged and counted in errors, running or not.
OnErrorEvent ==
    /\ evPc = "idle"
    /\ nikoStats' = [nikoStats EXCEPT !.errors = Capped(@ + 1, MaxErrors)]
    /\ miscEvent' = [kind |-> "error", counted |-> TRUE]
    /\ UNCHANGED <<cachedState, syncPc, devices_data, evPc, evDevice, evLog,
                   nikoRunning, devices_cache, kvStore>>
    /\ UNCHANGED xSync

(***************************************************************************)
(* DucoModbusClient: the register each call addresses, and the node-type   *)
(* cache                                                                   *)
(***************************************************************************)
MaxOffset == 1

NoClientCall == [op |-> "none", node |-> 0, param |-> "", device |-> None,
                 before |-> None, accesses |-> <<>>, result |-> None]

ClientIdle ==
    /\ register_offset = 0
    /\ clientCall = NoClientCall

\* _adjust_register, line 269.
AdjustRegister(register, no_shift, offset) ==
    IF no_shift THEN register + offset ELSE register

\* _node_register, line 533.
NodeRegister(node, param) == (node * 100) + param

\* The parameter number each getter passes to _node_register.
ParamNumber(q) ==
    CASE q = "remaining_time"  -> 2
      [] q = "flow_level"      -> 3
      [] q = "air_quality_rh"  -> 4
      [] q = "air_quality_co2" -> 5
      [] q = "humidity"        -> 9
      [] q = "co2"             -> 10

\* One access of the bus: the register the caller names, the address put on
\* the wire, and the value read or written.
Access(kind, register, address, value) ==
    [kind |-> kind, register |-> register, address |-> address,
     value |-> value]

\* read_input_register(register): the access it makes.
InputRead(register, value) ==
    Access("input", register,
           AdjustRegister(register, FALSE, register_offset), value)

\* The read of the type register get_node_type makes for a node not cached.
TypeAccess(node, typeRead) ==
    IF IsNone(nodeTypeCache[node])
    THEN <<InputRead(NodeRegister(node, 0), typeRead)>>
    ELSE <<>>

\* get_node_type(node); typeRead is what the node's type register holds.
ClientGetNodeType(node, typeRead) ==
    /\ LET got == GetNodeType(nodeTypeCache, node, typeRead)
       IN  /\ nodeTypeCache' = got.cache
           /\ clientCall' = [NoClientCall EXCEPT
                               !.op = "get_node_type", !.node = node,
                               !.device = typeRead,
                               !.before = nodeTypeCache[node],
                               !.accesses = TypeAccess(node, typeRead),
                               !.result = got.type]
    /\ UNCHANGED register_offset
    /\ UNCHANGED xClient

\* get_node_remaining_time ... get_node_co2: the capabilities of the node's
\* type are looked up through get_node_type, and the parameter register is
\* read unless they exclude the parameter.
ClientGetNodeParam(node, q, typeRead, paramRead) ==
    /\ LET got == GetNodeType(nodeTypeCache, node, typeRead)
           excluded == /\ ~IsNone(got.type)
                       /\ HasCapabilities(Val(got.type))
                       /\ q \notin NODE_CAPABILITIES[Val(got.type)]
           register == NodeRegister(node, ParamNumber(q))
       IN  /\ nodeTypeCache' = got.cache
           /\ clientCall' = [NoClientCall EXCEPT
                               !.op = "get_node_param", !.node = node,
                               !.param = q,
                               !.device = paramRead,
                               !.before = nodeTypeCache[node],
                               !.accesses =
                                   TypeAccess(node, typeRead) \o
                                   (IF excluded THEN <<>>
                                    ELSE <<InputRead(register, paramRead)>>),
                               !.result = IF excluded THEN None
                                          ELSE paramRead]
    /\ UNCHANGED register_offset
    /\ UNCHANGED xClient

\* read_holding_register(register).
ClientReadHoldingRegister(register, value) ==
    /\ clientCall' = [NoClientCall EXCEPT
                        !.op = "read_holding_register",
                        !.device = value,
                        !.accesses =
                            <<Access("holding", register,
                                     AdjustRegister(register, FALSE,
                                                    register_offset),
                                     value)>>,
                        !.result = value]
    /\ UNCHANGED <<register_offset, nodeTypeCache>>
    /\ UNCHANGED xClient

\* write_register(register, value).
ClientWriteRegister(register, value) ==
    /\ clientCall' = [NoClientCall EXCEPT
                        !.op = "write_register",
                        !.accesses =
                            <<Access("write", register,
                                     AdjustRegister(register, FALSE,
                                                    register_offset),
                                     Some(value))>>]
    /\ UNCHANGED <<register_offset, nodeTypeCache>>
    /\ UNCHANGED xClient

\* get_active_nodes, lines 715-716: the presence registers 0..8 are read
\* with the offset added by the caller.
ClientGetActiveNodes(value) ==
    /\ clientCall' = [NoClientCall EXCEPT
                        !.op = "get_active_nodes",
                        !.accesses =
                            [reg \in 1..9 |->
                               Access("input", reg - 1,
                                      AdjustRegister(
                                          (reg - 1) + register_offset, FALSE,
                                          register_offset),
                                      value)]]
    /\ UNCHANGED <<register_offset, nodeTypeCache>>
    /\ UNCHANGED xClient

(***************************************************************************)
(* start() and stop() of a service called repeatedly, and the loop threads *)
(* they leave behind                                                       *)
(***************************************************************************)
MaxThreads == 3

ThreadIds == 1..MaxThreads

ThreadsIdle ==
    /\ svcRunning = FALSE
    /\ svcThread = 0
    /\ loopThreads = [i \in ThreadIds |-> "none"]
    /\ joinPc = "none"

\* The threads that are in _run_loop.
InLoop(ts) == {i \in ThreadIds : ts[i] \in {"test", "cycle", "wait"}}

\* start(): nothing when the flag is set; else the flag is set and a new
\* thread is created and started.
StartCall ==
    /\ joinPc = "none"
    /\ \E i \in ThreadIds : loopThreads[i] = "none"
    /\ IF svcRunning
       THEN UNCHANGED <<svcRunning, svcThread, loopThreads>>
       ELSE LET new == CHOOSE i \in ThreadIds :
                          /\ loopThreads[i] = "none"
                          /\ \A j \in ThreadIds :
                                loopThreads[j] = "none" => i <= j
            IN  /\ svcRunning' = TRUE
                /\ svcThread' = new
                /\ loopThreads' = [loopThreads EXCEPT ![new] = "test"]
    /\ UNCHANGED joinPc
    /\ UNCHANGED xThreads

\* stop(): nothing when the flag is clear; else the flag is cleared and the
\* caller joins self.thread.
StopCall ==
    /\ joinPc = "none"
    /\ svcRunning
    /\ svcRunning' = FALSE
    /\ joinPc' = "joining"
    /\ UNCHANGED <<svcThread, loopThreads>>
    /\ UNCHANGED xThreads

\* join(timeout=5) returns because the thread has ended.
JoinEnded ==
    /\ joinPc = "joining"
    /\ loopThreads[svcThread] = "ended"
    /\ joinPc' = "none"
    /\ UNCHANGED <<svcRunning, svcThread, loopThreads>>
    /\ UNCHANGED xThreads

\* join(timeout=5) returns after five seconds with the thread alive: the
\* thread has been in a cycle all that time (out of a cycle it looks at the
\* flag at least once a second).
JoinTimeout ==
    /\ joinPc = "joining"
    /\ loopThreads[svcThread] = "cycle"
    /\ joinPc' = "none"
    /\ UNCHANGED <<svcRunning, svcThread, loopThreads>>
    /\ UNCHANGED xThreads

\* while self.running, in thread i.
ThreadTest(i) ==
    /\ loopThreads[i] = "test"
    /\ loopThreads' = [loopThreads EXCEPT
                         ![i] = IF LoopGoesOn(svcRunning) THEN "cycle"
                                ELSE "ended"]
    /\ UNCHANGED <<svcRunning, svcThread, joinPc>>
    /\ UNCHANGED xThreads

\* The cycle of thread i ends.
ThreadCycle(i) ==
    /\ loopThreads[i] = "cycle"
    /\ loopThreads' = [loopThreads EXCEPT ![i] = "wait"]
    /\ UNCHANGED <<svcRunning, svcThread, joinPc>>
    /\ UNCHANGED xThreads

\* The wait of thread i is over, or left because the flag is clear.
ThreadWait(i) ==
    /\ loopThreads[i] = "wait"
    /\ loopThreads' = [loopThreads EXCEPT ![i] = "test"]
    /\ UNCHANGED <<svcRunning, svcThread, joinPc>>
    /\ UNCHANGED xThreads

\* The components added to the core ones, at rest.
ExtIdle == ZoneIdle /\ PubIdle /\ LoopIdle /\ OpsIdle /\ NikoIdle /\ ConvIdle /\ CycleIdle /\ TickIdle /\ SyncIdle /\ ClientIdle /\ ThreadsIdle

(***************************************************************************)
(* Specifications                                                          *)
(***************************************************************************)
InitTemp ==
    /\ tempRaw \in RegisterReads /\ tempOut = None /\ tempPc = "read"
    /\ WriteIdle
    /\ InsertIdle
    /\ DiscIdle
    /\ PollIdle
    /\ CollectIdle
    /\ ExtIdle

NextTemp == TempConvert

SpecTemp == InitTemp /\ [][NextTemp]_vars

InitWrite ==
    /\ TempIdle /\ WriteIdle /\ InsertIdle /\ DiscIdle /\ PollIdle
    /\ CollectIdle /\ ExtIdle

NextWriteSeq ==
    \/ \E c \in Callers : WriteCallSeq(c)
    \/ \E c \in Callers : EnforceCheck(c)
    \/ \E c \in Callers : SleepWake(c)
    \/ \E c \in Callers : StampAndIssue(c)
    \/ \E c \in Callers, o \in WriteOutcomes : WriteReturn(c, o)
    \/ Tick

SpecWriteSeq == InitWrite /\ [][NextWriteSeq]_vars

NextWrite ==
    \/ \E c \in Callers : WriteCall(c)
    \/ \E c \in Callers : EnforceCheck(c)
    \/ \E c \in Callers : SleepWake(c)
    \/ \E c \in Callers : StampAndIssue(c)
    \/ \E c \in Callers, o \in WriteOutcomes : WriteReturn(c, o)
    \/ Tick

SpecWrite == InitWrite /\ [][NextWrite]_vars

InitInsert ==
    /\ TempIdle /\ WriteIdle /\ InsertIdle /\ DiscIdle /\ PollIdle
    /\ CollectIdle /\ ExtIdle

NextInsert ==
    \/ \E b \in Batches, ok \in BOOLEAN : InsertCall(b, ok)
    \/ BulkOk
    \/ \E keep \in BOOLEAN : BulkDuplicateError(keep)
    \/ \E keep \in BOOLEAN : BulkOtherError(keep)
    \/ \E ok \in BOOLEAN, f \in SUBSET (1..MaxBatch) : FallbackOk(ok, f)
    \/ \E ok, keep \in BOOLEAN, d \in 0..MaxBatch, f \in SUBSET (1..MaxBatch) :
          FallbackFails(ok, d, f, keep)
    \/ \E ok \in BOOLEAN : Reconnect(ok)
    \/ \E io, keep \in BOOLEAN : SimpleInsert(io, keep)
    \/ InsertReturn

SpecInsert == InitInsert /\ [][NextInsert]_vars

\* The inserts of the collector: every batch insert_measurements gets is
\* non-empty and comes from _collect_and_store, which counts the result.
InitStore ==
    /\ TempIdle /\ WriteIdle /\ InsertIdle /\ DiscIdle /\ PollIdle
    /\ CollectIdle /\ ZoneIdle /\ PubIdle /\ LoopIdle /\ OpsIdle /\ NikoIdle
    /\ ConvIdle /\ CycleIdle /\ TickIdle /\ SyncIdle /\ ClientIdle /\ ThreadsIdle

NextStore ==
    \/ \E b \in Batches \ {<<>>}, ok \in BOOLEAN : InsertCall(b, ok)
    \/ BulkOk
    \/ \E keep \in BOOLEAN : BulkDuplicateError(keep)
    \/ \E keep \in BOOLEAN : BulkOtherError(keep)
    \/ \E ok \in BOOLEAN, f \in SUBSET (1..MaxBatch) : FallbackOk(ok, f)
    \/ \E ok, keep \in BOOLEAN, d \in 0..MaxBatch, f \in SUBSET (1..MaxBatch) :
          FallbackFails(ok, d, f, keep)
    \/ \E ok \in BOOLEAN : Reconnect(ok)
    \/ \E io, keep \in BOOLEAN : SimpleInsert(io, keep)
    \/ StoreResult

SpecStore == InitStore /\ [][NextStore]_vars

InitDisc ==
    /\ bitRegs \in PresenceContents(MaxPresenceRegs) /\ discResult = <<>> /\ discPc = "ready"
    /\ TempIdle /\ WriteIdle /\ InsertIdle /\ PollIdle /\ CollectIdle
    /\ ExtIdle

NextDisc == DiscScan

SpecDisc == InitDisc /\ [][NextDisc]_vars

InitCollect ==
    /\ \E k \in 0..MaxPopulated :
          /\ kvDucobox \in BoxContents(k)
          /\ kvNodes \in NodeContents(MaxPopulated - k)
    /\ collected = <<>> /\ collectPc = "ready"
    /\ TempIdle /\ WriteIdle /\ InsertIdle /\ DiscIdle /\ PollIdle
    /\ ExtIdle

NextCollect == CollectDuco

SpecCollect == InitCollect /\ [][NextCollect]_vars

InitPoll ==
    /\ TempIdle /\ WriteIdle /\ InsertIdle /\ DiscIdle /\ PollIdle
    /\ CollectIdle /\ ExtIdle

NextPoll ==
    \/ \E S \in SUBSET PollNodes : ScanNetwork(S)
    \/ PollNodesStart
    \/ \E tr \in TypeReads, S \in ReadOutcomes, raises \in BOOLEAN :
          PollOneNode(tr, S, raises)
    \/ \E n \in 0..Cardinality(PollNodes) : PollPublish(n)
    \/ PollReturn

SpecPoll == InitPoll /\ [][NextPoll]_vars

\* The polls of the control loop alone (_run_loop, lines 96-106): its thread
\* scans the network, when a scan is due, before it polls the nodes, and
\* nothing else replaces active_nodes.
NextPollCycle ==
    \/ \E S \in SUBSET PollNodes : pollPc = "idle" /\ ScanNetwork(S)
    \/ PollNodesStart
    \/ \E tr \in TypeReads, S \in ReadOutcomes, raises \in BOOLEAN :
          PollOneNode(tr, S, raises)
    \/ \E n \in 0..Cardinality(PollNodes) : PollPublish(n)
    \/ PollReturn

SpecPollCycle == InitPoll /\ [][NextPollCycle]_vars

InitZone ==
    /\ zoneTemp \in ZoneTemps
    /\ zoneReg = 210 /\ zoneErr = "none" /\ zoneOut = None /\ zonePc = "ready"
    /\ TempIdle /\ WriteIdle /\ InsertIdle /\ DiscIdle /\ PollIdle
    /\ CollectIdle /\ PubIdle /\ LoopIdle /\ OpsIdle /\ NikoIdle /\ ConvIdle /\ CycleIdle /\ TickIdle /\ SyncIdle /\ ClientIdle /\ ThreadsIdle

NextZone ==
    \/ \E ok \in BOOLEAN : SetSupplyTemperatureZone(ok)
    \/ \E ok \in BOOLEAN : GetSupplyTemperatureZone(ok)

SpecZone == InitZone /\ [][NextZone]_vars

InitPub ==
    /\ kvStore = {}
    /\ kvNow = 0
    /\ key_prefix \in {None, Some("smarthome")}
    /\ enable_pubsub \in BOOLEAN
    /\ pubPc = "idle"
    /\ pubCalls = 0
    /\ pubCall = NoCall
    /\ pubNotes = <<>>
    /\ pubWritten = NeverWritten
    /\ TempIdle /\ WriteIdle /\ InsertIdle /\ DiscIdle /\ PollIdle
    /\ CollectIdle /\ ZoneIdle /\ LoopIdle /\ OpsIdle /\ NikoIdle /\ ConvIdle /\ CycleIdle /\ TickIdle /\ SyncIdle /\ ClientIdle /\ ThreadsIdle

NextPub ==
    \/ PublishOne
    \/ PublishNetwork
    \/ PublishNiko
    \/ PublishItems
    \/ DeleteOne
    \/ PublishReturn
    \/ KvTick

SpecPub == InitPub /\ [][NextPub]_vars

InitLoop ==
    /\ service \in Loops
    /\ running = FALSE
    /\ interval \in 0..MaxInterval
    /\ loopPc = "none"
    /\ waitLeft = 0
    /\ loopStats = [cycles |-> 0, errors |-> 0]
    /\ stopPc = "none"
    /\ joinSecs = 0
    /\ cycleBit = 0
    /\ lateSleep = 0
    /\ lastCycle = "none"
    /\ TempIdle /\ WriteIdle /\ InsertIdle /\ DiscIdle /\ PollIdle
    /\ CollectIdle /\ ZoneIdle /\ PubIdle /\ OpsIdle /\ NikoIdle /\ ConvIdle /\ CycleIdle /\ TickIdle /\ SyncIdle /\ ClientIdle /\ ThreadsIdle

NextLoop ==
    \/ Start
    \/ LoopTest
    \/ \E raised \in BOOLEAN, handled \in BOOLEAN : CycleEnd(raised, handled)
    \/ WaitCheck
    \/ Stop
    \/ StopReturn
    \/ Second

SpecLoop == InitLoop /\ [][NextLoop]_vars

\* The loop thread is scheduled, the cycles and the call of stop() come to an
\* end, and time passes.
LoopFairness ==
    /\ WF_vars(LoopTest)
    /\ WF_vars(\E raised \in BOOLEAN, handled \in BOOLEAN :
                   CycleEnd(raised, handled))
    /\ WF_vars(WaitCheck)
    /\ WF_vars(StopReturn)
    /\ WF_vars(Second)

SpecLoopFair == SpecLoop /\ LoopFairness

\* A service whose owner calls start() and stop() in any order.
InitThreads ==
    /\ svcRunning = FALSE
    /\ svcThread = 0
    /\ loopThreads = [i \in ThreadIds |-> "none"]
    /\ joinPc = "none"
    /\ TempIdle /\ WriteIdle /\ InsertIdle /\ DiscIdle /\ PollIdle
    /\ CollectIdle /\ ZoneIdle /\ PubIdle /\ LoopIdle /\ OpsIdle /\ NikoIdle
    /\ ConvIdle /\ CycleIdle /\ TickIdle /\ SyncIdle /\ ClientIdle

NextThreads ==
    \/ StartCall
    \/ StopCall
    \/ JoinEnded
    \/ JoinTimeout
    \/ \E i \in ThreadIds : ThreadTest(i)
    \/ \E i \in ThreadIds : ThreadCycle(i)
    \/ \E i \in ThreadIds : ThreadWait(i)

SpecThreads == InitThreads /\ [][NextThreads]_vars

InitOps ==
    /\ opPc = "idle"
    /\ opCall = NoOp
    /\ service = "poller"
    /\ running = FALSE
    /\ interval \in 0..MaxInterval
    /\ loopPc = "none"
    /\ waitLeft = 0
    /\ loopStats = [cycles |-> 0, errors |-> 0]
    /\ stopPc = "none"
    /\ joinSecs = 0
    /\ cycleBit = 0
    /\ lateSleep = 0
    /\ lastCycle = "none"
    /\ TempIdle /\ WriteIdle /\ InsertIdle /\ DiscIdle /\ PollIdle
    /\ CollectIdle /\ ZoneIdle /\ PubIdle /\ NikoIdle /\ ConvIdle /\ CycleIdle /\ TickIdle /\ SyncIdle /\ ClientIdle /\ ThreadsIdle

NextOps ==
    \/ OpsStart
    \/ OpsStop
    \/ \E mode \in VentilationModes, write \in Outcomes :
          SetVentilationMode(mode, write)
    \/ \E node \in PollNodes, on \in Outcomes, holdRaises \in BOOLEAN,
          off \in Outcomes :
          IdentifyNode(node, on, holdRaises, off)
    \/ OpReturn

SpecOps == InitOps /\ [][NextOps]_vars

InitNiko ==
    /\ nikoRunning = FALSE
    /\ devices_cache = {}
    /\ nikoStats = [device_updates |-> 0, errors |-> 0]
    /\ nikoLast = NeverHandled
    /\ nikoDeleted = [u \in NikoUuids |-> FALSE]
    /\ key_prefix \in {None, Some("smarthome")}
    /\ kvStore = {} /\ kvNow = 0 /\ enable_pubsub = TRUE /\ pubPc = "idle"
    /\ pubCalls = 0 /\ pubCall = NoCall /\ pubNotes = <<>>
    /\ pubWritten = NeverWritten
    /\ TempIdle /\ WriteIdle /\ InsertIdle /\ DiscIdle /\ PollIdle
    /\ CollectIdle /\ ZoneIdle /\ LoopIdle /\ OpsIdle /\ ConvIdle /\ CycleIdle /\ TickIdle /\ SyncIdle /\ ClientIdle /\ ThreadsIdle

NextNiko ==
    \/ \E devices \in DeviceLists, convFails \in SerFails,
          payload \in Payloads, execOk \in BOOLEAN :
          NikoStart(devices, convFails, payload, execOk)
    \/ NikoStop
    \/ \E method \in {"devices.changed", "devices.added", "devices.removed"},
          devices \in DeviceLists, payload \in Payloads,
          convFails \in SerFails, redisFails \in SerFails :
          OnDeviceEvent(method, devices, payload, convFails, redisFails)

SpecNiko == InitNiko /\ [][NextNiko]_vars

\* start() on one thread and device events on the transport's thread.
InitNikoRace ==
    /\ cachedState = [u \in NikoUuids |-> "none"]
    /\ syncPc = "idle"
    /\ devices_data = [u \in NikoUuids |-> "none"]
    /\ evPc = "idle"
    /\ evDevice = NoEntry
    /\ evLog = [u \in NikoUuids |-> NoEntry]
    /\ miscEvent = NoMisc
    /\ nikoRunning = FALSE
    /\ devices_cache = {}
    /\ nikoStats = [device_updates |-> 0, errors |-> 0]
    /\ nikoLast = NeverHandled
    /\ nikoDeleted = [u \in NikoUuids |-> FALSE]
    /\ key_prefix = Some("smarthome")
    /\ kvStore = {} /\ kvNow = 0 /\ enable_pubsub = TRUE /\ pubPc = "idle"
    /\ pubCalls = 0 /\ pubCall = NoCall /\ pubNotes = <<>>
    /\ pubWritten = NeverWritten
    /\ TempIdle /\ WriteIdle /\ InsertIdle /\ DiscIdle /\ PollIdle
    /\ CollectIdle /\ ZoneIdle /\ LoopIdle /\ OpsIdle /\ ConvIdle
    /\ CycleIdle /\ TickIdle /\ ClientIdle /\ ThreadsIdle

NextNikoRace ==
    \/ StartBegin
    \/ \E data \in [NikoUuids -> DeviceStates] : SyncList(data)
    \/ SyncCache
    \/ \E execOk \in BOOLEAN : SyncPublish(execOk)
    \/ \E u \in NikoUuids, state \in Payloads : EventCache(u, state)
    \/ \E outcome \in {"ok", "set fails", "notify fails"} :
          EventPublish(outcome)
    \/ EventReturn

SpecNikoRace == InitNikoRace /\ [][NextNikoRace]_vars

\* The callbacks of a service that was started or not, one event at a time.
InitNikoEvents ==
    /\ cachedState = [u \in NikoUuids |-> "none"]
    /\ syncPc = "idle"
    /\ devices_data = [u \in NikoUuids |-> "none"]
    /\ evPc = "idle"
    /\ evDevice = NoEntry
    /\ evLog = [u \in NikoUuids |-> NoEntry]
    /\ miscEvent = NoMisc
    /\ nikoRunning \in BOOLEAN
    /\ devices_cache = {}
    /\ nikoStats = [device_updates |-> 0, errors |-> 0]
    /\ nikoLast = NeverHandled
    /\ nikoDeleted = [u \in NikoUuids |-> FALSE]
    /\ key_prefix = Some("smarthome")
    /\ kvStore = {} /\ kvNow = 0 /\ enable_pubsub = TRUE /\ pubPc = "idle"
    /\ pubCalls = 0 /\ pubCall = NoCall /\ pubNotes = <<>>
    /\ pubWritten = NeverWritten
    /\ TempIdle /\ WriteIdle /\ InsertIdle /\ DiscIdle /\ PollIdle
    /\ CollectIdle /\ ZoneIdle /\ LoopIdle /\ OpsIdle /\ ConvIdle
    /\ CycleIdle /\ TickIdle /\ ClientIdle /\ ThreadsIdle

NextNikoEvents ==
    \/ \E u \in NikoUuids, state \in Payloads : EventCache(u, state)
    \/ \E outcome \in {"ok", "set fails", "notify fails"} :
          EventPublish(outcome)
    \/ EventReturn
    \/ \E method \in {"notifications.raised"}, count \in 0..2 :
          OnNotificationEvent(method, count)
    \/ \E method \in {"time.published", "systeminfo.published"} :
          OnSystemEvent(method)
    \/ OnErrorEvent

SpecNikoEvents == InitNikoEvents /\ [][NextNikoEvents]_vars

InitNodeOps ==
    /\ opPc = "idle"
    /\ opCall = NoOp
    /\ TempIdle /\ WriteIdle /\ InsertIdle /\ DiscIdle /\ PollIdle
    /\ CollectIdle /\ ZoneIdle /\ PubIdle /\ LoopIdle /\ NikoIdle /\ ConvIdle /\ CycleIdle /\ TickIdle /\ SyncIdle /\ ClientIdle /\ ThreadsIdle

NextNodeOps ==
    \/ \E node \in PollNodes, typeRead \in NodeOpTypes, enable \in BOOLEAN,
          force \in BOOLEAN, writeOk \in BOOLEAN :
          ClientIdentifyNode(node, typeRead, enable, force, writeOk)
    \/ \E node \in PollNodes, typeRead \in NodeOpTypes,
          mode \in VentilationModes, writeOk \in BOOLEAN :
          SetNodeVentilationMode(node, typeRead, mode, writeOk)
    \/ OpReturn

SpecNodeOps == InitNodeOps /\ [][NextNodeOps]_vars

\* The calls of one client, constructed with some register offset.
ClientTypeReads == {None, Some(10), Some(17), Some(99)}

InitClient ==
    /\ register_offset \in 0..MaxOffset
    /\ clientCall = NoClientCall
    /\ TempIdle /\ WriteIdle /\ InsertIdle /\ DiscIdle /\ PollIdle
    /\ CollectIdle /\ ZoneIdle /\ PubIdle /\ LoopIdle /\ OpsIdle /\ NikoIdle
    /\ ConvIdle /\ CycleIdle /\ TickIdle /\ SyncIdle /\ ThreadsIdle

NextClient ==
    \/ \E node \in PollNodes, typeRead \in ClientTypeReads :
          ClientGetNodeType(node, typeRead)
    \/ \E node \in PollNodes, q \in ParamSet, typeRead \in ClientTypeReads,
          paramRead \in {None, Some(45)} :
          ClientGetNodeParam(node, q, typeRead, paramRead)
    \/ \E register \in {4, NodeRegister(5, 0)}, value \in {None, Some(1)} :
          ClientReadHoldingRegister(register, value)
    \/ \E register \in {4, NodeRegister(5, 0)}, value \in {1} :
          ClientWriteRegister(register, value)
    \/ \E value \in {None, Some(0)} : ClientGetActiveNodes(value)

SpecClient == InitClient /\ [][NextClient]_vars

InitConv ==
    /\ api_data \in ApiRecords
    /\ new_device = None
    /\ TempIdle /\ WriteIdle /\ InsertIdle /\ DiscIdle /\ PollIdle
    /\ CollectIdle /\ ZoneIdle /\ PubIdle /\ LoopIdle /\ OpsIdle /\ NikoIdle /\ CycleIdle /\ TickIdle /\ SyncIdle /\ ClientIdle /\ ThreadsIdle

NextConv == CreateDevice

SpecConv == InitConv /\ [][NextConv]_vars

InitCycle ==
    /\ utcNow = 0
    /\ cyclePc = "idle"
    /\ cycleBatch = None
    /\ cycleStats = [measurements_stored |-> 0, errors |-> 0]
    /\ cycleBefore = {}
    /\ key_prefix \in {None, Some("smarthome")}
    /\ \E ids \in SUBSET Identities, payloadOf \in [Identities -> Payloads] :
          kvStore = StoreOf(ids, payloadOf)
    /\ kvNow = 0 /\ enable_pubsub = TRUE /\ pubPc = "idle"
    /\ pubCalls = 0 /\ pubCall = NoCall /\ pubNotes = <<>>
    /\ pubWritten = NeverWritten
    /\ TempIdle /\ WriteIdle /\ InsertIdle /\ DiscIdle /\ PollIdle
    /\ CollectIdle /\ ZoneIdle /\ LoopIdle /\ OpsIdle /\ NikoIdle /\ ConvIdle /\ TickIdle /\ SyncIdle /\ ClientIdle /\ ThreadsIdle

NextCycle ==
    \/ \E lag \in {0, 1}, nikoOk \in BOOLEAN, boxOk \in BOOLEAN,
          nodesOk \in BOOLEAN, insertOk \in BOOLEAN :
          CollectAndStore(lag, nikoOk, boxOk, nodesOk, insertOk)
    \/ CycleReturn

SpecCycle == InitCycle /\ [][NextCycle]_vars

InitTick ==
    /\ wallNow = 0
    /\ last_network_scan = None
    /\ tickPc = "tick"
    /\ tickStats = [polls |-> 0, system_updates |-> 0]
    /\ tickLog = NoTick
    /\ TempIdle /\ WriteIdle /\ InsertIdle /\ DiscIdle /\ PollIdle
    /\ CollectIdle /\ ZoneIdle /\ PubIdle /\ LoopIdle /\ OpsIdle /\ NikoIdle
    /\ ConvIdle /\ CycleIdle /\ SyncIdle /\ ClientIdle /\ ThreadsIdle

\* The loop with every scan result and every time between iterations, the
\* system reads all returning a value or none.
NextScan ==
    \/ \E S \in SUBSET PollNodes : TickScan(S)
    \/ \E ok \in {SystemReads, {}} : PollSystem(ok, TRUE)
    \/ \E d \in PollIntervals : TickWait(d)
    \/ \E ok \in {SystemReads, {}} : ManualPoll(ok, TRUE)
    \/ ManualReturn

SpecScan == InitTick /\ [][NextScan]_vars

\* The loop with every outcome of the system reads and of the publish, both
\* nodes present at each scan, 301 seconds between iterations.
NextSystem ==
    \/ TickScan(PollNodes)
    \/ \E ok \in SystemOutcomes, pubOk \in BOOLEAN : PollSystem(ok, pubOk)
    \/ TickWait(network_scan_interval + 1)
    \/ \E ok \in SystemOutcomes, pubOk \in BOOLEAN : ManualPoll(ok, pubOk)
    \/ ManualReturn

SpecSystem == InitTick /\ [][NextSystem]_vars

\* The loop with the node polls: each scan finds some of the nodes or has
\* every read fail; _poll_nodes runs between the system poll and the wait.
RescanRegs == {AllFailedRegs} \cup {PresenceFor(S) : S \in SUBSET PollNodes}

InitRescan ==
    /\ wallNow = 0
    /\ last_network_scan = None
    /\ tickPc = "tick"
    /\ tickStats = [polls |-> 0, system_updates |-> 0]
    /\ tickLog = NoTick
    /\ TempIdle /\ WriteIdle /\ InsertIdle /\ DiscIdle /\ PollIdle
    /\ CollectIdle /\ ZoneIdle /\ PubIdle /\ LoopIdle /\ OpsIdle /\ NikoIdle
    /\ ConvIdle /\ CycleIdle /\ SyncIdle /\ ClientIdle /\ ThreadsIdle

NextRescan ==
    \/ \E regs \in RescanRegs : TickScanRegs(regs)
    \/ PollSystem(SystemReads, TRUE)
    \/ tickPc = "nodes" /\ PollNodesStart
    \/ \E tr \in {None, Some(10)}, raises \in BOOLEAN :
          PollOneNode(tr, ParamSet, raises)
    \/ \E n \in 0..Cardinality(PollNodes) : PollPublish(n)
    \/ PollReturn
    \/ \E d \in {150, network_scan_interval + 1} :
          pollPc = "idle" /\ TickWait(d)

SpecRescan == InitRescan /\ [][NextRescan]_vars

(***************************************************************************)
(* Claims                                                                  *)
(***************************************************************************)

\* C1: when write_register calls are made one after another, any two
\* consecutive register writes are issued at least WRITE_INTERVAL seconds
\* apart, whatever the earlier write returned.
C1_SequentialWritesSpaced ==
    \A i \in 1..(Len(issueTimes) - 1) :
        issueTimes[i + 1] - issueTimes[i] >= WRITE_INTERVAL

\* A second write was issued after a write that failed, exactly
\* WRITE_INTERVAL after it: the limiter slept.
C1_Witness ==
    /\ Len(issueTimes) >= 2
    /\ issueTimes[2] - issueTimes[1] = WRITE_INTERVAL
    /\ \E c \in Callers : wResult[c] = Some(FALSE)

\* C2: when callers are inside write_register at the same time, no two
\* register writes are issued less than WRITE_INTERVAL seconds apart.
C2_ConcurrentWritesSpaced ==
    \A i, j \in DOMAIN issueTimes :
        i < j => issueTimes[j] - issueTimes[i] >= WRITE_INTERVAL

\* C3: the measurements table never holds two rows with the same
\* (time, device_id, measurement_type).
C3_UniqueKeys ==
    \A r1, r2 \in Points :
        (dbRows[r1] > 0 /\ dbRows[r2] > 0 /\ Key(r1) = Key(r2))
            => (r1 = r2 /\ dbRows[r1] = 1)

\* A call that replayed a stored key on the one-at-a-time path and also
\* added a new row has finished.
C3_Witness ==
    /\ insPc = "done"
    /\ insLog.path = "fallback"
    /\ \E i \in DOMAIN insBatch : Conflicts(insEntry.rows, insBatch[i])
    /\ dbRows # insEntry.rows

\* Every key of the batch was in the table when the call was made.
AllPresentAtEntry ==
    /\ insBatch # <<>>
    /\ \A i \in DOMAIN insBatch : Conflicts(insEntry.rows, insBatch[i])

\* C4: a call whose batch holds only keys that are already stored returns
\* success and leaves the table unchanged, on whichever insertion path it
\* ended (bulk, one-at-a-time, or the plain insert after the reconnect), as
\* long as that path's statement met no I/O error.
C4_ReplayIsSilentNoOp ==
    (/\ insPc = "done"
     /\ AllPresentAtEntry
     /\ insLog.path \in {"bulk", "fallback", "simple"}
     /\ insLog.err \in {"none", "unique"})
        => (insResult = Some(TRUE) /\ dbRows = insEntry.rows)

\* C5: with a connection at entry and a non-empty batch, failure is reported
\* only after the bulk insert has failed and one reconnect has been made,
\* followed by one retry of the batch unless the reconnect itself failed;
\* there is never more than one reconnect per call.
C5_FailureOnlyAfterReconnect ==
    /\ insLog.reconnects <= 1
    /\ insLog.simpleTries <= insLog.reconnects
    /\ (insPc = "done" /\ insResult = Some(FALSE) /\ insEntry.conn
        /\ insBatch # <<>>)
          => /\ insLog.bulkFails >= 1
             /\ insLog.reconnects = 1
             /\ (insLog.err = "connect" \/ insLog.simpleTries = 1)

\* A call that had a connection at entry failed after its retry on the new
\* connection.
C5_Witness ==
    /\ insPc = "done"
    /\ insResult = Some(FALSE)
    /\ insEntry.conn
    /\ insBatch # <<>>
    /\ insLog.simpleTries = 1

\* The optional fields a node record populates.
PopulatedFields(rec) == {q \in ParamSet : ~IsNone(rec.fields[q])}

\* C6: no record whose six optional fields are all absent is in the batch
\* handed to publish_duco_network, nor in the batch being built.
C6_NoEmptyRecordHanded ==
    /\ \A i \in DOMAIN toPublish : PopulatedFields(toPublish[i]) # {}
    /\ ~IsNone(pollHanded) =>
          \A i \in DOMAIN Val(pollHanded) :
              PopulatedFields(Val(pollHanded)[i]) # {}

\* A poll built a record with no data for one node, left it out, and handed
\* a batch with the other node's record.
C6_Witness ==
    /\ pollPc = "handed"
    /\ pollNoData # {}
    /\ ~IsNone(pollHanded)
    /\ Len(Val(pollHanded)) = 1

\* C7: every record handed to the publisher is for a node of the active-node
\* list the poll went through, no two records are for the same node, and the
\* fields a record populates are among those its node type's capabilities
\* support.
C7_HandedRecordsMatchActiveNodes ==
    ~IsNone(pollHanded) =>
        LET batch == Val(pollHanded)
        IN  /\ \A i \in DOMAIN batch :
                  \E k \in DOMAIN pollList : batch[i].node_id = pollList[k]
            /\ \A i, j \in DOMAIN batch :
                  batch[i].node_id = batch[j].node_id => i = j
            /\ \A i \in DOMAIN batch :
                  /\ HasCapabilities(batch[i].node_type)
                  /\ PopulatedFields(batch[i])
                        \subseteq NODE_CAPABILITIES[batch[i].node_type]

\* Nodes 5 (a humidity sensor) and 12 (a CO2 sensor) are active, every
\* parameter register answers, and the two records handed populate disjoint
\* fields: humidity 45 for node 5, CO2 650 for node 12.
C7_Witness ==
    /\ pollPc = "handed"
    /\ pollList = <<5, 12>>
    /\ ~IsNone(pollHanded)
    /\ Len(Val(pollHanded)) = 2
    /\ Val(pollHanded)[1].node_id = 5
    /\ Val(pollHanded)[1].node_type = 10
    /\ Val(pollHanded)[1].fields["humidity"] = Some(45)
    /\ Val(pollHanded)[2].node_id = 12
    /\ Val(pollHanded)[2].node_type = 12
    /\ Val(pollHanded)[2].fields["co2"] = Some(650)
    /\ PopulatedFields(Val(pollHanded)[1])
          \cap PopulatedFields(Val(pollHanded)[2]) = {}

\* The plausibility range of a unit.
InUnitRange(unit, n) ==
    CASE unit = "degC" -> -50 <= n /\ n <= 100
      [] unit = "%"    -> 0 <= n /\ n <= 100
      [] unit = "ppm"  -> 0 <= n /\ n <= 5000

\* The value of a field makes a point: it is a number, or a string holding
\* one, within the range of the field's unit.
Plausible(field, reading) ==
    /\ reading.kind \in {"num", "str"}
    /\ InUnitRange(Unit(field), reading.v)

\* The list holds a point of this device for this field.
HasPoint(device, field) ==
    \E i \in DOMAIN collected :
        /\ collected[i].device_id = device
        /\ collected[i].measurement_type = MeasurementType(field)

\* C8: the collector makes a point of a value exactly when the value lies in
\* the plausibility range of its unit, [-50,100] for degrees, [0,100] for
\* percentages, [0,5000] for ppm; the point carries the value unchanged.
C8_PointsWithinUnitRange ==
    collectPc = "done" =>
        /\ \A i \in DOMAIN collected :
              InUnitRange(collected[i].unit, collected[i].value)
        /\ ~IsNone(kvDucobox) =>
              \A f \in FieldSet(DucoboxFields) :
                  HasPoint("ducobox_main", f)
                      <=> Plausible(f, Val(kvDucobox)[f])
        /\ \A k \in DOMAIN kvNodes :
              \A f \in FieldSet(NodeFields) :
                  HasPoint(kvNodes[k].node_id, f)
                      <=> Plausible(f, kvNodes[k].fields[f])

\* The nodes whose presence bit is set in a register that was read.
PresentNodes ==
    {n \in 1..143 : /\ ~IsNone(bitRegs[n \div 16])
                    /\ BitSet(Val(bitRegs[n \div 16]), n % 16)}

\* C9: get_active_nodes returns exactly the nodes n = register * 16 + bit,
\* 1 <= n <= 143, whose bit is set, in ascending order and each once.
C9_ActiveNodesExact ==
    discPc = "done" =>
        /\ {discResult[i] : i \in DOMAIN discResult} = PresentNodes
        /\ \A i \in 1..(Len(discResult) - 1) :
              discResult[i] < discResult[i + 1]

\* The bit of node 0 and the bit of node 143 are set: the list holds 143
\* and not 0.
C9_Witness ==
    /\ discPc = "done"
    /\ bitRegs[0] = Some(1)
    /\ bitRegs[8] = Some(32768)
    /\ discResult = <<143>>

\* C10: a register value v decodes to v tenths of a degree when v < 32768 and
\* to v - 65536 tenths when v >= 32768; an absent value decodes to absent.
C10_TemperatureDecode ==
    tempPc = "done" =>
        IF IsNone(tempRaw) THEN IsNone(tempOut)
        ELSE /\ Val(tempRaw) < 32768 => tempOut = Some(Val(tempRaw))
             /\ Val(tempRaw) >= 32768 => tempOut = Some(Val(tempRaw) - 65536)

\* The first negative encoding has been decoded.
C10_Witness ==
    tempPc = "done" /\ tempRaw = Some(32768) /\ tempOut = Some(-32768)

\* C11: a temperature x of [-3276.8, 3276.7] that set_supply_temperature_zone
\* has written and get_supply_temperature_zone has read back, with no
\* transport failure on the way, comes back within 0.1 degree of x, for
\* negative x as for non-negative x.
C11_ZoneRoundTrip ==
    (zonePc = "done" /\ zoneErr # "transport" /\ ~IsNone(zoneOut))
        => /\ Val(zoneOut) * 10 - zoneTemp <= 10
           /\ zoneTemp - Val(zoneOut) * 10 <= 10

\* The keys of all the identities, under either prefix.
AllKeys(prefix) == {BuildKey(prefix, i.pattern, i.param) : i \in Identities}

C13_DucoKeysExpireNikoKeysStay ==
    /\ \A i \in DucoIdentities :
          StoreGet(kvStore, KeyOf(i)) # {}
              <=> /\ ~IsNone(pubWritten[i])
                  /\ kvNow < Val(pubWritten[i]).at + 300
    /\ \A i \in Identities \ DucoIdentities :
          StoreGet(kvStore, KeyOf(i)) # {} <=> ~IsNone(pubWritten[i])

\* Five minutes after a DUCO key and a Niko key were written, the DUCO key is
\* gone and the Niko key is still there.
C13_Witness ==
    /\ \E i \in DucoIdentities :
          /\ ~IsNone(pubWritten[i])
          /\ kvNow >= Val(pubWritten[i]).at + 300
          /\ StoreGet(kvStore, KeyOf(i)) = {}
    /\ \E i \in Identities \ DucoIdentities :
          /\ ~IsNone(pubWritten[i])
          /\ kvNow >= Val(pubWritten[i]).at + 300
          /\ StoreGet(kvStore, KeyOf(i)) # {}

\* C14: a publish_device call whose key write took place reports success
\* even when the notification could not be sent.
C14_NotifyFailureNotReported ==
    (pubPc = "done" /\ pubCall.op = "device" /\ pubCall.wrote
        /\ pubCall.fault = "notify")
        => pubCall.ok

\* C15: a publish_device call that reports success with pub/sub enabled has
\* sent exactly one notification, with the payload it stored, on the channel
\* "updates:" + key (prefix included), after the key was written; with
\* pub/sub disabled, or when the key write failed, it has sent none.
C15_OneNotificationPerPublish ==
    (pubPc = "done" /\ pubCall.op = "device")
        => /\ (pubCall.ok /\ enable_pubsub)
                 => pubNotes = <<[channel |-> <<"updates">>
                                      \o KeyOf(pubCall.items[1]),
                                  payload |-> pubCall.payload,
                                  stored |-> TRUE]>>
           /\ (~enable_pubsub \/ ~pubCall.wrote) => pubNotes = <<>>

\* A successful publish under a prefix, with pub/sub enabled.
C15_Witness ==
    /\ pubPc = "done" /\ pubCall.op = "device" /\ pubCall.ok
    /\ enable_pubsub /\ key_prefix # None
    /\ Len(pubNotes) = 1

\* C16: publish_batch returns success + failed = len(items); an item whose
\* serialization fails is counted as failed and the others are written; when
\* the pipeline fails, success is 0, failed is len(items) and no key has
\* changed.  publish_duco_network returns 0 when its pipeline fails.
C16_BatchCounts ==
    /\ (pubPc = "done" /\ pubCall.op = "batch")
          => /\ pubCall.success + pubCall.failed = Len(pubCall.items)
             /\ pubCall.fault = "none"
                   => /\ pubCall.failed
                          = Cardinality(pubCall.serFails
                                          \cap DOMAIN pubCall.items)
                      /\ \A k \in DOMAIN pubCall.items :
                            StoreGet(kvStore, KeyOf(pubCall.items[k]))
                              = IF k \in pubCall.serFails
                                THEN StoreGet(pubCall.before,
                                              KeyOf(pubCall.items[k]))
                                ELSE {pubCall.payload}
             /\ pubCall.fault = "store"
                   => /\ pubCall.success = 0
                      /\ pubCall.failed = Len(pubCall.items)
                      /\ kvStore = pubCall.before
    /\ (pubPc = "done" /\ pubCall.op = "network" /\ pubCall.fault = "store")
          => pubCall.success = 0 /\ kvStore = pubCall.before

\* A batch of two items, the first of which did not serialize, whose
\* pipeline failed.
C16_Witness ==
    /\ pubPc = "done" /\ pubCall.op = "batch"
    /\ pubCall.fault = "store" /\ pubCall.serFails = {1}
    /\ pubCall.failed = Len(pubCall.items)

\* C17: while the running flag stays true, every cycle of the loop is
\* followed by another cycle, whether the cycle returned or raised; and a
\* failure that escapes a cycle increments the errors counter and takes the
\* loop to its wait phase.
C17_LoopKeepsCycling ==
    /\ (loopPc = "cycle" /\ cycleBit = 0)
          ~> (~running \/ (loopPc = "cycle" /\ cycleBit = 1))
    /\ (loopPc = "cycle" /\ cycleBit = 1)
          ~> (~running \/ (loopPc = "cycle" /\ cycleBit = 0))
    /\ [][(loopPc = "cycle" /\ lastCycle' = "raised" /\ loopPc' # "cycle")
             => /\ loopStats'.errors = Capped(loopStats.errors + 1, MaxErrors)
                /\ loopStats'.cycles = loopStats.cycles
                /\ loopPc' = "wait"]_vars

\* A cycle is under way after a cycle that raised.
C17_Witness ==
    /\ running /\ loopPc = "cycle" /\ lastCycle = "raised"
    /\ loopStats.errors = 1 /\ loopStats.cycles = 0

\* C18: once stop() has cleared the running flag the loop starts no cycle; a
\* loop in its wait phase sleeps at most the second it had begun; the loop
\* thread ends; and stop() returns, having waited at most 5 seconds.
C18_StopEndsLoop ==
    /\ [][~running => ~(loopPc # "cycle" /\ loopPc' = "cycle")]_vars
    /\ [](lateSleep <= 1)
    /\ [](joinSecs <= 5)
    /\ (stopPc = "joining") ~> (loopPc = "ended")
    /\ (stopPc = "joining") ~> (stopPc = "returned")

\* stop() was called during the wait; the thread has slept its second out
\* and ended, and stop() has returned.
C18_Witness ==
    /\ stopPc = "returned" /\ loopPc = "ended"
    /\ lateSleep = 1 /\ joinSecs = 1

\* C19: when set_ventilation_mode returns True, a system poll and a node
\* poll were made after the write of the mode register and before the
\* return.
C19_ModeChangeIsPolled ==
    (opPc = "done" /\ opCall.op = "set_ventilation_mode" /\ opCall.result)
        => opCall.trace = <<"write", "sleep", "poll_system", "poll_nodes">>

\* C20: an identify_node call that made the turn-on write also made the
\* turn-off write before it returned.
C20_IdentifyTurnsOff ==
    (opPc = "done" /\ opCall.op = "identify_node"
        /\ \E k \in DOMAIN opCall.trace : opCall.trace[k] = "on")
        => \E k \in DOMAIN opCall.trace : opCall.trace[k] = "off"

C22_UnsupportedRejectedAsFalse ==
    (opPc = "done"
        /\ opCall.op \in {"client.identify_node",
                          "client.set_node_ventilation_mode"}
        /\ ~IsNone(opCall.arg.caps)
        /\ (IF opCall.op = "client.identify_node" THEN "identify"
            ELSE "set_mode") \notin Val(opCall.arg.caps))
        => IF opCall.arg.force THEN opCall.trace = <<"write">>
           ELSE opCall.trace = <<>> /\ ~opCall.result /\ ~opCall.raised

\* C23: create_device takes the class from the lower-cased Model through the
\* model table, else from the thermostat, meter, plug and sensor fallbacks
\* (in that order), else the generic action device.  Model "dimmer" with
\* Status "On" and Brightness "75" gives a dimmer of brightness 75 and status
\* "On"; an unrecognized model of Type "thermostat" gives a thermostat.
C23_DeviceClassResolution ==
    ~IsNone(new_device) =>
        LET d == Val(new_device)
            text == api_data.Model.text
            type == api_data.Type
        IN  /\ text = "dimmer"
                  => /\ d.class = "DimmerAction"
                     /\ (api_data.Status = Some("On")
                            /\ api_data.Brightness = Some(NumString(75)))
                           => d.brightness = Some(75) /\ d.status = Some("On")
            /\ text = "light" => d.class = "RelayAction"
            /\ text = "hvacthermostat" => d.class = "HVACThermostat"
            /\ text \in {"thermostat", "smart-thermostat"}
                  => d.class = "Thermostat"
            /\ (text \in {"mystery", "", "powermeter", "wallplug",
                          "airsensor"}
                   /\ type \in {"thermostat", "hvac"})
                  => d.class = "Thermostat"
            /\ (text = "powermeter" /\ type \notin {"thermostat", "hvac"})
                  => d.class = "ElectricityMeteringModule"
            /\ (text = "wallplug"
                   /\ type \notin {"thermostat", "hvac", "centralmeter"})
                  => d.class = "SmartPlug"
            /\ (text = "airsensor"
                   /\ type \notin {"thermostat", "hvac", "centralmeter",
                                   "smartplug"})
                  => d.class = "ThermoSwitch"
            /\ (text \in {"mystery", ""} /\ type \in {"action", ""})
                  => d.class = "BaseActionDevice"

\* The record of the claim, with the Model as the API sends it.
C23_Witness ==
    /\ api_data.Model = [text |-> "dimmer", cased |-> TRUE]
    /\ api_data.Status = Some("On")
    /\ api_data.Brightness = Some(NumString(75))
    /\ ~IsNone(new_device)
    /\ Val(new_device).class = "DimmerAction"
    /\ Val(new_device).brightness = Some(75)

\* C24: a collector cycle leaves the keys of the key-value store and their
\* values as they were, whether or not the insert failed.
C24_CollectorReadsOnly ==
    cyclePc = "done" => kvStore = cycleBefore

\* A cycle has read records of all three sources and its insert has failed.
C24_Witness ==
    /\ cyclePc = "done" /\ cycleStats.errors = 1
    /\ ~IsNone(cycleBatch) /\ Len(Val(cycleBatch)) >= 3
    /\ kvStore # {}

\* C30: all the points of the list handed to one insert_measurements call
\* have the same timestamp.
C30_OneTimestampPerBatch ==
    ~IsNone(cycleBatch)
        => \A j, k \in DOMAIN Val(cycleBatch) :
              Val(cycleBatch)[j].timestamp = Val(cycleBatch)[k].timestamp
C28_DucoBoxNeverANodeRecord ==
    /\ \A i \in DOMAIN toPublish : toPublish[i].node_type # 17
    /\ ~IsNone(pollHanded)
         => \A i \in DOMAIN Val(pollHanded) :
               Val(pollHanded)[i].node_type # 17

\* A poll has handed a batch over, and one of the nodes polled is of type
\* 17: it passed the test of line 210 and was found to have no data.
C28_Witness ==
    /\ pollPc = "handed"
    /\ ~IsNone(pollHanded)
    /\ \E i \in DOMAIN pollList :
          /\ nodeTypeCache[pollList[i]] = Some(17)
          /\ pollList[i] \in pollNoData

\* C29: for a node whose type has no entry in NODE_CAPABILITIES (and is not
\* the DucoBox), the node poll reads the optional parameters all the same,
\* and a record with the values read is added to the batch whenever one of
\* the reads returns a value.
C29_UnknownTypeBestEffort ==
    [][\A S \in ReadOutcomes \ {{}} :
          LET node == pollList[pollIdx]
              t    == nodeTypeCache'[node]
          IN  (/\ pollPc = "loop"
               /\ pollIdx <= Len(pollList)
               /\ pollIdx' # pollIdx
               /\ ~IsNone(t)
               /\ ~HasCapabilities(Val(t))
               /\ Val(t) # 17
               /\ \E tr \in {None, t} : PollOneNode(tr, S, FALSE))
                 => toPublish' =
                       Append(toPublish,
                              DucoNode(node, Val(t),
                                  [present |-> TRUE,
                                   fields  |-> ParamReads(S)]))]_vars
C27_RescanWhenDue ==
    /\ tickLog.op = "tick"
         => /\ tickLog.rescan
                 <=> (\/ IsNone(tickLog.lastBefore)
                      \/ wallNow - Val(tickLog.lastBefore) > 300)
            /\ IF tickLog.rescan
               THEN /\ active_nodes = Val(tickLog.found)
                    /\ last_network_scan = Some(wallNow)
               ELSE /\ active_nodes = tickLog.before
                    /\ last_network_scan = tickLog.lastBefore
    /\ tickLog.op = "poll_now"
         => /\ ~tickLog.rescan
            /\ active_nodes = tickLog.before
            /\ last_network_scan = tickLog.lastBefore

\* An iteration 301 seconds after the last scan has scanned again and has
\* replaced a list of two nodes with another list.
C27_Witness ==
    /\ tickLog.op = "tick"
    /\ ~IsNone(tickLog.lastBefore)
    /\ wallNow - Val(tickLog.lastBefore) = 301
    /\ tickLog.rescan
    /\ Len(tickLog.before) = 2
    /\ active_nodes # tickLog.before
\* C31: when insert_measurements returns success from the one-at-a-time
\* path, every point of the batch whose key was not in the table when the
\* call began has a row with its key in the table afterwards.
C31_FallbackSkipsOnlyConflicts ==
    (insPc = "done" /\ insLog.path = "fallback" /\ insResult = Some(TRUE))
        => \A i \in DOMAIN insBatch :
              ~Conflicts(insEntry.rows, insBatch[i])
                  => Conflicts(dbRows, insBatch[i])

\* C32: a call in which the bulk insert raised does not report failure
\* before the one-at-a-time path was attempted, whatever the error was.
C32_FallbackBeforeFailure ==
    (insPc = "done" /\ insResult = Some(FALSE) /\ insLog.bulkFails > 0)
        => insLog.fallbacks > 0

\* C38: measurements_stored never exceeds the number of rows the insert
\* calls of the collector added to the table.
C38_StoredCountsRowsAdded ==
    cycleStats.measurements_stored <= TotalRows(dbRows, Points)
\* C33: every notification, system and error event handled by the running
\* service changes a counter of the statistics.
C33_OtherEventsCounted ==
    miscEvent.kind # "none" => miscEvent.counted

\* C37: once start() and the handler have both finished, the cache and the
\* store hold, for a UUID whose last event arrived after the initial sync
\* had listed the devices and before it finished, and was written, the
\* state that event carried.
C37_EventWinsOverSync ==
    (syncPc = "done" /\ evPc = "idle")
        => \A u \in NikoUuids :
              (evLog[u].published /\ evLog[u].during)
                  => /\ cachedState[u] = evLog[u].state
                     /\ StoreGet(kvStore, NikoKey(u)) = {evLog[u].state}

\* C39: when the handler has dealt with a changed or added entry, the cache
\* and the store hold the same state for its UUID, whether or not the
\* publish succeeded; device_updates is counted only for a publish that
\* succeeded.
C39_CacheAndStoreAgree ==
    evPc = "handled"
        => /\ StoreGet(kvStore, NikoKey(evDevice.uuid))
                 = {cachedState[evDevice.uuid]}
           /\ evDevice.counted => evDevice.published
\* C34: a call of get_node_type for a node whose type is cached returns the
\* cached type and reads no register; for a node not cached it reads the
\* type register, and caches and returns the type of the value read
\* (UNKNOWN for a code that is no node type), or returns nothing and caches
\* nothing when the read fails; a parameter getter that returns a value has
\* read it from the parameter's register in that call.
C34_OnlyNodeTypeCached ==
    /\ clientCall.op = "get_node_type" =>
          IF ~IsNone(clientCall.before)
          THEN /\ clientCall.result = clientCall.before
               /\ clientCall.accesses = <<>>
               /\ nodeTypeCache[clientCall.node] = clientCall.before
          ELSE /\ Len(clientCall.accesses) = 1
               /\ clientCall.accesses[1].register
                     = NodeRegister(clientCall.node, 0)
               /\ clientCall.result
                     = IF IsNone(clientCall.device) THEN None
                       ELSE Some(ToNodeType(Val(clientCall.device)))
               /\ nodeTypeCache[clientCall.node] = clientCall.result
    /\ (clientCall.op = "get_node_param" /\ ~IsNone(clientCall.result)) =>
          LET last == clientCall.accesses[Len(clientCall.accesses)]
          IN  /\ clientCall.accesses # <<>>
              /\ last.register = NodeRegister(clientCall.node,
                                              ParamNumber(clientCall.param))
              /\ last.value = clientCall.result

\* C34 witness: a node whose type is cached as UNKNOWN is asked for again
\* while its register holds another type; the cached type is returned and
\* nothing is read.
C34_Witness ==
    /\ clientCall.op = "get_node_type"
    /\ clientCall.before = Some(0)
    /\ clientCall.device = Some(10)
    /\ clientCall.result = Some(0)
    /\ clientCall.accesses = <<>>

\* C35: every access of the bus is addressed at the register the caller
\* names plus the register offset; with offset 0 a node parameter is
\* addressed at node * 100 + parameter number.
C35_OffsetAppliedUniformly ==
    /\ \A i \in DOMAIN clientCall.accesses :
          clientCall.accesses[i].address
              = clientCall.accesses[i].register + register_offset
    /\ (register_offset = 0 /\ clientCall.op = "get_node_param"
            /\ ~IsNone(clientCall.result)) =>
          clientCall.accesses[Len(clientCall.accesses)].address
              = clientCall.node * 100 + ParamNumber(clientCall.param)
\* C40: a rescan in which every read of the presence registers fails
\* replaces active_nodes with the empty list and sets last_network_scan to
\* the time of the scan; and while active_nodes stays empty no node poll is
\* started, no type register is read, nothing is handed to the publisher
\* and node_updates does not change.
C40_FailedRescanEmptiesNodes ==
    [][ /\ (tickPc = "tick" /\ tickPc' = "system" /\ tickLog'.rescan
               /\ tickLog'.regs = Some(AllFailedRegs))
            => /\ active_nodes' = <<>>
               /\ last_network_scan' = Some(wallNow)
        /\ (active_nodes = <<>> /\ active_nodes' = <<>>)
            => /\ pollPc' = "idle"
               /\ toPublish' = <<>>
               /\ pollHanded' = None
               /\ nodeTypeCache' = nodeTypeCache
               /\ pollStats' = pollStats ]_vars

\* C40 witness: the loop, with nodes in active_nodes from an earlier scan,
\* has made a rescan in which every read failed.
C40_Witness ==
    /\ tickPc = "nodes"
    /\ tickLog.rescan
    /\ tickLog.regs = Some(AllFailedRegs)
    /\ tickLog.before # <<>>
    /\ active_nodes = <<>>
    /\ last_network_scan = Some(wallNow)
    /\ pollPc = "idle"
\* C36: whatever calls of start() and stop() have been made, at most one
\* thread is executing a cycle.
C36_OneLoopThread ==
    Cardinality({i \in ThreadIds : loopThreads[i] = "cycle"}) <= 1

=============================================================================
